---- MODULE Spec2Model ----
(***************************************************************************)
(* Verification model of the sole-backend ETL scripts.                     *)
(*                                                                         *)
(* Part I   : the batch embedding coordinator                              *)
(*            (scripts/active/batch_generate_embeddings.py)                *)
(* Part II  : update_supabase_with_embeddings on an arbitrary result file  *)
(* Part III : the alias -> stockx product mapping                          *)
(*            (scripts/active/create_product_mappings.py)                  *)
(* Part IV  : normalize_style_id, on strings as sequences of characters    *)
(* Part V   : the chunked product insert without embeddings                *)
(*            (scripts/active/insert_all_products_no_embeddings.py and     *)
(*            steps 1 and 2 of scripts/active/master_migration_fresh.py)   *)
(* Part VI  : the migrations that embed while they insert                  *)
(*            (migrate_products_full.py and migrate_alias_remaining.py)    *)
(***************************************************************************)
EXTENDS Integers, Sequences, FiniteSets, TLC

(***************************************************************************)
(* Bounds of the model.                                                    *)
(***************************************************************************)
\* rows of the products table seen by the batch coordinator
NProducts == 3
\* provider jobs that may ever be created
MaxJobs == 3
\* times the vectors of one shard may be written before invocations stop
MaxApply == 2
\* provider-side job failures allowed in the fair specification
MaxFailures == 1
\* lines of a result file handed to update_supabase_with_embeddings
MaxLines == 4
\* rows of the products table seen by create_product_mappings
MaxProducts == 3
\* characters of a style id handed to normalize_style_id
MaxLen == 3
\* separators inserted into a style id to decorate it
MaxDecorations == 2
\* rows of the source table stockx_products, and of alias_products
NStockx == 2
NAlias == 1
\* runs of an insert script
MaxRuns == 2
\* runs of an embedding migration
MaxMigrations == 2
\* times the idle insert_worker lets queue.get time out
MaxTimeouts == 1
\* rows of stockx_products and of alias_products a migration reads
MigStockx == 1
MigAlias == 1
\* rows of products when step3_generate_embeddings starts
MaxStep3Rows == 3
\* largest chunk size of step3_generate_embeddings
MaxChunk == 2
\* rows of products regenerate_embeddings reads
MaxRegen == 2
\* the index scripts see 100 * r * r and 100 * r * r + 99 embedded products,
\* r up to MaxRoot
MaxRoot == 10
\* rows of products the inventory scripts see
MaxLinkProducts == 3
\* runs of an inventory migration
MaxLinkRuns == 2

(***************************************************************************)
(* Program constants.  Both are scaled down from the source (50000 and     *)
(* 5000) so that several shards and several flushes occur on a table of    *)
(* NProducts rows; the code only ever compares lengths against them.       *)
(***************************************************************************)
BATCH_SIZE_LIMIT == 2
BATCH_SIZE == 2

NULL == "NULL"

\* python None / SQL NULL where a string is expected.  Strings are sequences
\* of one-character strings, so the null is a sequence too: of one element
\* that is not a character.
None == <<NULL>>

VARIABLES
    \* ---- Part I / II: batch embedding pipeline
    products,        \* products table: product_id_internal -> row
    batch_ids_json,  \* the durable state file batch_ids.json
    jobs,            \* provider side: batch id -> job
    result_files,    \* local artifacts batch_output_<n>.jsonl
    main,            \* position and locals of the running invocation of main
    downloads,       \* history: downloads performed per shard
    applied,         \* history: applications of a shard's result file
    \* ---- Part II
    apply_file,      \* the result file handed to update_supabase_with_embeddings
    apply_pre,       \* products table before the call
    apply_ret,       \* its return value (updated, failed)
    \* ---- Part III
    catalog,         \* products table as read by create_product_mappings
    product_mapping, \* table product_mapping, row k has mapping_id k
    last_run,        \* history: whether map_by_style_id or main ran last, and
                     \* whether that map_by_style_id found the mapping table empty
    \* ---- Part IV
    plain,           \* a style id as the source system holds it
    decorated,       \* the same style id with separators added and case changed
    norm_result,     \* what normalize_style_id returned for them
    \* ---- Part V
    mysql,           \* source tables stockx_products and alias_products
    products_table,  \* destination table products, in insertion order
    insert,          \* position and locals of the running insert script
    table_before,    \* history: products when the running script started
    \* ---- Part VI
    schema,          \* the unique constraints of products
    inventory,       \* destination table inventory
    stop_event,      \* threading.Event set by the SIGINT handler
    queue,           \* the Queue between process_with_queue and insert_worker
    stats,           \* the counters of the running migration
    migrate,         \* position and locals of the main thread
    worker,          \* position and locals of the insert_worker thread
    history,         \* history: keys written so far, products after run one
    \* ---- Part VII
    step3,           \* position and locals of step3_generate_embeddings
    \* ---- Part VIII
    task_queue,      \* regenerate_embeddings: Queue of (id, text) tasks
    result_queue,    \* regenerate_embeddings: Queue of (id, embedding) results
    threads,         \* regenerate_embeddings: main, the workers, the updater
    \* ---- Part IX
    linking,         \* position and locals of the inventory scripts
    \* ---- Part X
    ladder           \* position and locals of the vector index scripts

batchVars == <<products, batch_ids_json, jobs, result_files, main, downloads, applied>>
applyVars == <<apply_file, apply_pre, apply_ret>>
mapVars == <<catalog, product_mapping, last_run>>
normVars == <<plain, decorated, norm_result>>
insertVars == <<mysql, products_table, insert, table_before>>
migrateVars == <<schema, inventory, stop_event, queue, stats, migrate, worker, history>>
toolVars == <<step3, task_queue, result_queue, threads, linking, ladder>>
scriptVars == <<normVars, insertVars, migrateVars, toolVars>>
vars == <<batchVars, applyVars, mapVars, scriptVars>>

(***************************************************************************)
(* Part I.  Batch embedding coordinator                                    *)
(***************************************************************************)
ProductIds == 1..NProducts
Texts == {"old", "new"}

\* the embedding provider: text -> vector (one vector per distinct text)
Embed(text) == IF text = "old" THEN "v_old" ELSE "v_new"

Vectors == {Embed(t) : t \in Texts}

\* number of shards a full table needs: (len + LIMIT - 1) // LIMIT
NumBatches(len) == (len + BATCH_SIZE_LIMIT - 1) \div BATCH_SIZE_LIMIT

Shards == 1..NumBatches(NProducts)

Min(a, b) == IF a < b THEN a ELSE b

\* generate_embedding_text: the current format of the text of a product
generate_embedding_text(p) == "new"

\* update_all_embedding_texts: every row gets the regenerated text
update_all_embedding_texts(db) ==
    [p \in DOMAIN db |-> [db[p] EXCEPT !.embedding_text = generate_embedding_text(p)]]

\* fetch_products_needing_embeddings: (id, text) ordered by id
fetch_products_needing_embeddings(db, regenerate_all) ==
    SelectSeq([p \in DOMAIN db |-> [product_id_internal |-> p,
                                    embedding_text |-> db[p].embedding_text]],
              LAMBDA r : /\ db[r.product_id_internal].embedding_text # NULL
                         /\ (regenerate_all \/ db[r.product_id_internal].embedding = NULL))

\* python slice seq[start_idx:end_idx]
Slice(seq, start_idx, end_idx) == SubSeq(seq, start_idx + 1, Min(end_idx, Len(seq)))

\* str(product_id): the decimal digits of a positive integer
RECURSIVE PyStr(_)
PyStr(n) == IF n < 10 THEN <<n>> ELSE Append(PyStr(n \div 10), n % 10)

\* int(custom_id): the number a digit string denotes
RECURSIVE PyInt(_)
PyInt(digits) ==
    IF Len(digits) = 1 THEN digits[1]
    ELSE 10 * PyInt(SubSeq(digits, 1, Len(digits) - 1)) + digits[Len(digits)]

\* create_batch_file: one request per product
create_batch_file(batch_products) ==
    [k \in 1..Len(batch_products) |->
        [custom_id |-> PyStr(batch_products[k].product_id_internal),
         input |-> batch_products[k].embedding_text]]

\* upload_batch: the provider creates a job; its id is the position in jobs
NewJob(batch_file, batch_num) ==
    [batch_num |-> batch_num, status |-> "in_progress", manifest |-> batch_file]

\* the output file of a completed job: one line per request
ProviderOutput(job) ==
    [k \in 1..Len(job.manifest) |->
        [custom_id |-> job.manifest[k].custom_id,
         error |-> FALSE,
         embedding |-> Embed(job.manifest[k].input)]]

NoFile == [exists |-> FALSE, lines |-> <<>>]
NoState == [exists |-> FALSE, batch_ids |-> <<>>, total_batches |-> 0]

Stopped ==
    [pc |-> "stopped", batch_ids |-> <<>>, total_batches |-> 0, i |-> 0,
     products |-> <<>>, failed_batches |-> <<>>, output_files |-> <<>>,
     all_completed |-> TRUE, seen |-> <<>>, new_batch_ids |-> <<>>]

Crashed == [Stopped EXCEPT !.pc = "crashed"]


(***************************************************************************)
(* update_supabase_with_embeddings (shared by Part I and Part II)          *)
(***************************************************************************)
\* execute_values(UPDATE products SET embedding = updates.embedding
\*                FROM (VALUES ...) WHERE product_id_internal = updates.product_id)
\* The ids of one result file are distinct (one line per request, one request
\* per primary key), so at most one VALUES row joins a product.
execute_values(db, batch_updates) ==
    [p \in DOMAIN db |->
        IF \E k \in 1..Len(batch_updates) : batch_updates[k].product_id = p
        THEN [db[p] EXCEPT !.embedding =
                 batch_updates[CHOOSE k \in 1..Len(batch_updates) :
                                   batch_updates[k].product_id = p].embedding]
        ELSE db[p]]

\* a seeded fault: the records left in batch_updates after the loop are dropped
RemainingDropped(db, updated, failed, batch_updates) ==
    [db |-> db, updated |-> updated, failed |-> failed]

\* "Insert remaining records": the flush after the loop
FlushRemaining(db, updated, failed, batch_updates) ==
    IF batch_updates # <<>>
    THEN [db |-> execute_values(db, batch_updates),
          updated |-> updated + Len(batch_updates), failed |-> failed]
    ELSE [db |-> db, updated |-> updated, failed |-> failed]

\* the loop over the lines of the file, from line k on
RECURSIVE ApplyLines(_, _, _, _, _, _)
ApplyLines(db, file, k, updated, failed, batch_updates) ==
    IF k > Len(file)
    THEN FlushRemaining(db, updated, failed, batch_updates)
    ELSE IF file[k].error
    THEN ApplyLines(db, file, k + 1, updated, failed + 1, batch_updates)
    ELSE LET appended == Append(batch_updates,
                                [embedding |-> file[k].embedding,
                                 product_id |-> PyInt(file[k].custom_id)])
         IN  IF Len(appended) >= BATCH_SIZE
             THEN ApplyLines(execute_values(db, appended), file, k + 1,
                             updated + Len(appended), failed, <<>>)
             ELSE ApplyLines(db, file, k + 1, updated, failed, appended)

update_supabase_with_embeddings(db, file) == ApplyLines(db, file, 1, 0, 0, <<>>)

(***************************************************************************)
(* main of batch_generate_embeddings.py, one action per step               *)
(***************************************************************************)
NoBatchStep == UNCHANGED <<applyVars, mapVars, scriptVars>>

\* check_batch_status: what main sees for a job ("raise" when retrieve raises)
check_batch_status(batch_id) ==
    IF jobs[batch_id].status = "missing" THEN "raise" ELSE jobs[batch_id].status

\* main starts and finds batch_ids.json: the resume path begins
StartResume ==
    /\ main.pc \in {"stopped", "crashed"}
    /\ batch_ids_json.exists
    /\ \A s \in Shards : applied[s] < MaxApply
    /\ main' = [Stopped EXCEPT !.pc = "check", !.i = 1,
                               !.batch_ids = batch_ids_json.batch_ids,
                               !.total_batches = batch_ids_json.total_batches]
    /\ UNCHANGED <<products, batch_ids_json, jobs, result_files, downloads, applied>>
    /\ NoBatchStep

\* main starts without batch_ids.json: the prompts, the optional text update,
\* the fetch and the confirmation
StartFresh(update_text, choice, continue) ==
    /\ main.pc \in {"stopped", "crashed"}
    /\ ~batch_ids_json.exists
    /\ LET db == IF update_text THEN update_all_embedding_texts(products) ELSE products
           fetched == fetch_products_needing_embeddings(db, choice = "2")
       IN  /\ products' = db
           /\ IF choice \notin {"1", "2"} \/ fetched = <<>> \/ ~continue
              THEN main' = Stopped
              ELSE main' = [Stopped EXCEPT !.pc = "submit", !.i = 0,
                                           !.products = fetched,
                                           !.total_batches = NumBatches(Len(fetched))]
    /\ UNCHANGED <<batch_ids_json, jobs, result_files, downloads, applied>>
    /\ NoBatchStep

\* one iteration of the submission loop: create_batch_file, upload_batch, append
FreshSubmit ==
    /\ main.pc = "submit"
    /\ Len(jobs) < MaxJobs
    /\ LET start_idx == main.i * BATCH_SIZE_LIMIT
           end_idx == Min((main.i + 1) * BATCH_SIZE_LIMIT, Len(main.products))
           batch_file == create_batch_file(Slice(main.products, start_idx, end_idx))
           batch_id == Len(jobs) + 1
       IN  /\ jobs' = Append(jobs, NewJob(batch_file, main.i + 1))
           /\ main' = [main EXCEPT
                         !.batch_ids = Append(@, batch_id),
                         !.i = IF main.i = main.total_batches - 2 THEN @ ELSE @ + 1,
                         !.pc = IF main.i = main.total_batches - 2 THEN "cooldown"
                                ELSE IF main.i + 1 = main.total_batches THEN "save"
                                ELSE "submit"]
    /\ UNCHANGED <<products, batch_ids_json, result_files, downloads, applied>>
    /\ NoBatchStep

\* the 20 minute wait before the last shard
FreshCooldown ==
    /\ main.pc = "cooldown"
    /\ main' = [main EXCEPT !.pc = "submit", !.i = @ + 1]
    /\ UNCHANGED <<products, batch_ids_json, jobs, result_files, downloads, applied>>
    /\ NoBatchStep

\* "Save all batch IDs for later"
FreshSave ==
    /\ main.pc = "save"
    /\ batch_ids_json' = [exists |-> TRUE, batch_ids |-> main.batch_ids,
                          total_batches |-> main.total_batches]
    /\ main' = Stopped
    /\ UNCHANGED <<products, jobs, result_files, downloads, applied>>
    /\ NoBatchStep


\* one iteration of the status loop of the resume path
ResumeCheck ==
    /\ main.pc = "check"
    /\ main.i <= Len(main.batch_ids)
    /\ LET status == check_batch_status(main.batch_ids[main.i])
       IN  main' =
             IF status = "raise"
             THEN Crashed
             ELSE [main EXCEPT
                     !.seen = Append(@, status),
                     !.output_files =
                         IF status = "completed"
                         THEN Append(@, <<main.i, main.batch_ids[main.i]>>) ELSE @,
                     !.failed_batches =
                         IF status = "failed" THEN Append(@, main.i) ELSE @,
                     !.all_completed = IF status = "completed" THEN @ ELSE FALSE,
                     !.i = @ + 1,
                     !.pc = IF main.i = Len(main.batch_ids) THEN "decide" ELSE "check"]
    /\ UNCHANGED <<products, batch_ids_json, jobs, result_files, downloads, applied>>
    /\ NoBatchStep

\* after the summary: the resubmit prompt, then the choice between
\* resubmitting, downloading and "run again later"
ResumeDecide(response) ==
    /\ main.pc = "decide"
    /\ main' =
         IF main.failed_batches # <<>> /\ response = "y"
         THEN LET fetched == fetch_products_needing_embeddings(products, FALSE)
              IN  IF fetched = <<>>
                  THEN Stopped
                  ELSE [main EXCEPT !.pc = "resubmit", !.i = 1, !.products = fetched]
         ELSE IF main.all_completed /\ Len(main.output_files) = Len(main.batch_ids)
         THEN [main EXCEPT !.pc = "download", !.i = 1]
         ELSE Stopped
    /\ UNCHANGED <<products, batch_ids_json, jobs, result_files, downloads, applied>>
    /\ NoBatchStep

\* failed_batches[-2], when there is one
SecondToLast(failed_batches) == failed_batches[Len(failed_batches) - 1]

\* one iteration of the loop "Resubmit only failed batches"
Resubmit ==
    /\ main.pc = "resubmit"
    /\ main.i <= Len(main.failed_batches)
    /\ LET batch_num == main.failed_batches[main.i]
           start_idx == (batch_num - 1) * BATCH_SIZE_LIMIT
           end_idx == Min(batch_num * BATCH_SIZE_LIMIT, Len(main.products))
           last == main.i = Len(main.failed_batches)
       IN  IF start_idx >= Len(main.products)
           THEN \* "out of range, skipping"
                /\ main' = [main EXCEPT !.i = @ + 1,
                                        !.pc = IF last THEN "resave" ELSE "resubmit"]
                /\ jobs' = jobs
           ELSE /\ Len(jobs) < MaxJobs
                /\ jobs' = Append(jobs,
                       NewJob(create_batch_file(Slice(main.products, start_idx, end_idx)),
                              batch_num))
                /\ main' = [main EXCEPT
                     !.new_batch_ids = Append(@, Len(jobs) + 1),
                     !.batch_ids[batch_num] = Len(jobs) + 1,
                     !.i = @ + 1,
                     !.pc = IF Len(main.failed_batches) > 1
                               /\ batch_num = SecondToLast(main.failed_batches)
                            THEN "recooldown"
                            ELSE IF last THEN "resave" ELSE "resubmit"]
    /\ UNCHANGED <<products, batch_ids_json, result_files, downloads, applied>>
    /\ NoBatchStep

\* the 20 minute wait before the last failed shard
ResubmitCooldown ==
    /\ main.pc = "recooldown"
    /\ main' = [main EXCEPT !.pc = "resubmit"]
    /\ UNCHANGED <<products, batch_ids_json, jobs, result_files, downloads, applied>>
    /\ NoBatchStep

\* "Save updated batch IDs"
ResubmitSave ==
    /\ main.pc = "resave"
    /\ batch_ids_json' = [exists |-> TRUE, batch_ids |-> main.batch_ids,
                          total_batches |-> main.total_batches]
    /\ main' = Stopped
    /\ UNCHANGED <<products, jobs, result_files, downloads, applied>>
    /\ NoBatchStep

\* download_results for the next completed shard: skipped when the artifact exists
Download ==
    /\ main.pc = "download"
    /\ main.i <= Len(main.output_files)
    /\ LET batch_num == main.output_files[main.i][1]
           output_file_id == main.output_files[main.i][2]
       IN  IF result_files[batch_num].exists
           THEN UNCHANGED <<result_files, downloads>>
           ELSE /\ result_files' = [result_files EXCEPT ![batch_num] =
                       [exists |-> TRUE, lines |-> ProviderOutput(jobs[output_file_id])]]
                /\ downloads' = [downloads EXCEPT ![batch_num] = @ + 1]
    /\ main' = [main EXCEPT !.i = IF main.i = Len(main.output_files) THEN 1 ELSE @ + 1,
                            !.pc = IF main.i = Len(main.output_files)
                                   THEN "apply" ELSE "download"]
    /\ UNCHANGED <<products, batch_ids_json, jobs, applied>>
    /\ NoBatchStep

\* update_supabase_with_embeddings for the next downloaded file
Apply ==
    /\ main.pc = "apply"
    /\ main.i <= Len(main.output_files)
    /\ LET batch_num == main.output_files[main.i][1]
           ret == update_supabase_with_embeddings(products, result_files[batch_num].lines)
       IN  /\ products' = ret.db
           /\ applied' = [applied EXCEPT ![batch_num] = @ + 1]
    /\ main' = IF main.i = Len(main.output_files) THEN Stopped
               ELSE [main EXCEPT !.i = @ + 1]
    /\ UNCHANGED <<batch_ids_json, jobs, result_files, downloads>>
    /\ NoBatchStep

\* the process is killed (SIGKILL, Ctrl-C) at any point
Kill ==
    /\ main.pc \notin {"stopped", "crashed"}
    /\ main' = Stopped
    /\ UNCHANGED <<products, batch_ids_json, jobs, result_files, downloads, applied>>
    /\ NoBatchStep

\* the provider ends a job
ProviderEnds(j, outcome) ==
    /\ j \in 1..Len(jobs)
    /\ jobs[j].status = "in_progress"
    /\ jobs' = [jobs EXCEPT ![j].status = outcome]
    /\ UNCHANGED <<products, batch_ids_json, result_files, main, downloads, applied>>
    /\ NoBatchStep

\* "expired" stands for every terminal status that is neither completed nor
\* failed (expired, cancelled): check_batch_status passes them through alike;
\* "missing" is a job the provider no longer knows (retrieve raises)
Outcomes == {"completed", "failed", "expired", "missing"}

InitialProducts ==
    {db \in [ProductIds -> [embedding_text : Texts \cup {NULL}, embedding : Vectors \cup {NULL}]] :
        \A p \in ProductIds :
            /\ db[p].embedding_text = NULL => db[p].embedding = NULL
            /\ db[p].embedding_text # "new"
            /\ db[p].embedding # NULL => db[p].embedding = Embed(db[p].embedding_text)}

ApplyIdle ==
    /\ apply_file = <<>>
    /\ apply_pre = <<>>
    /\ apply_ret = <<>>

MapIdle ==
    /\ catalog = <<>>
    /\ product_mapping = <<>>
    /\ last_run = [op |-> "other", pre_empty |-> FALSE]

NotNormalized == [done |-> FALSE, plain |-> None, decorated |-> None, again |-> None]

NormIdle ==
    /\ plain = None
    /\ decorated = None
    /\ norm_result = NotNormalized

NoSource == [stockx |-> <<>>, alias |-> <<>>]

NotInserting ==
    [pc |-> "idle", script |-> "", platform |-> "", products |-> <<>>, batch_start |-> 0,
     attempt |-> 0, inserted |-> 0, attempted |-> {}, runs |-> 0]

InsertIdle ==
    /\ mysql = NoSource
    /\ products_table = <<>>
    /\ insert = NotInserting
    /\ table_before = <<>>

NoStats == [generated |-> 0, inserted |-> 0, failed |-> 0, skipped |-> 0,
            inventory_updated |-> 0]

NotMigrating ==
    [pc |-> "idle", script |-> "", phase |-> 0, products |-> <<>>, i |-> 0,
     attempt |-> 0, waits |-> <<>>, embeddings |-> <<>>, run |-> 0]

NoWorker == [pc |-> "exited", product |-> <<>>, timeouts |-> 0, aborted |-> FALSE]

NoHistory == [written |-> {}, refetched |-> {}, after_first_run |-> <<>>,
              first_run |-> "none", generated |-> {}, settled |-> {},
              handed |-> 0, unsuccessful |-> 0]

MigrateIdle ==
    /\ schema = "pair"
    /\ inventory = <<>>
    /\ stop_event = FALSE
    /\ queue = <<>>
    /\ stats = NoStats
    /\ migrate = NotMigrating
    /\ worker = NoWorker
    /\ history = NoHistory

NotEmbedding == [pc |-> "idle", chunk_size |-> 0, total |-> 0, offset |-> 0,
                 processed |-> 0, provider_failed |-> FALSE]

NotLinking == [pc |-> "idle", script |-> "", items |-> <<>>, item_cache |-> <<>>,
               first_cache |-> <<>>, run |-> 0]

NotIndexing == [pc |-> "idle", script |-> "", product_count |-> 0, strategies |-> <<>>,
                i |-> 0, attempts |-> <<>>, result |-> "none"]

ToolsIdle ==
    /\ step3 = NotEmbedding
    /\ task_queue = <<>>
    /\ result_queue = <<>>
    /\ threads = <<>>
    /\ linking = NotLinking
    /\ ladder = NotIndexing

ScriptsIdle == NormIdle /\ InsertIdle /\ MigrateIdle /\ ToolsIdle

Init ==
    /\ products \in InitialProducts
    /\ batch_ids_json = NoState
    /\ jobs = <<>>
    /\ result_files = [s \in Shards |-> NoFile]
    /\ main = Stopped
    /\ downloads = [s \in Shards |-> 0]
    /\ applied = [s \in Shards |-> 0]
    /\ ApplyIdle
    /\ MapIdle
    /\ ScriptsIdle

Next ==
    \/ StartResume
    \/ \E update_text \in BOOLEAN, choice \in {"1", "2", "q"}, continue \in BOOLEAN :
           StartFresh(update_text, choice, continue)
    \/ FreshSubmit
    \/ FreshCooldown
    \/ FreshSave
    \/ ResumeCheck
    \/ \E response \in {"y", "n"} : ResumeDecide(response)
    \/ Resubmit
    \/ ResubmitCooldown
    \/ ResubmitSave
    \/ Download
    \/ Apply
    \/ Kill
    \/ \E j \in 1..MaxJobs, outcome \in Outcomes : ProviderEnds(j, outcome)

Spec == Init /\ [][Next]_vars


(***************************************************************************)
(* The fair specification of resumption: nobody kills the process, the     *)
(* operator keeps invoking main and answers "y" to every resubmit prompt,  *)
(* and the provider ends every job as completed or failed, failing at most *)
(* MaxFailures jobs.                                                       *)
(***************************************************************************)
Failures == Cardinality({j \in 1..Len(jobs) : jobs[j].status = "failed"})

OperatorStep ==
    \/ StartResume
    \/ \E update_text \in BOOLEAN, choice \in {"1", "2", "q"}, continue \in BOOLEAN :
           StartFresh(update_text, choice, continue)
    \/ FreshSubmit
    \/ FreshCooldown
    \/ FreshSave
    \/ ResumeCheck
    \/ ResumeDecide("y")
    \/ Resubmit
    \/ ResubmitSave
    \/ Download
    \/ Apply

ProviderStep ==
    \E j \in 1..MaxJobs, outcome \in {"completed", "failed"} :
        /\ outcome = "failed" => Failures < MaxFailures
        /\ ProviderEnds(j, outcome)

LiveNext == OperatorStep \/ ProviderStep

LiveSpec == Init /\ [][LiveNext]_vars /\ WF_vars(OperatorStep) /\ WF_vars(ProviderStep)

(***************************************************************************)
(* Claims about the batch embedding coordinator                            *)
(***************************************************************************)
Range(seq) == {seq[k] : k \in 1..Len(seq)}

ManifestIds(job) == {job.manifest[k].custom_id : k \in 1..Len(job.manifest)}

LiveJobs(s) ==
    {j \in 1..Len(jobs) : jobs[j].batch_num = s /\ jobs[j].status \in {"in_progress", "completed"}}

\* C1: in the fresh-submission path, once upload_batch has returned the id of
\* a shard, batch_ids.json holds that id before the cooldown or the next
\* submission begins.
C1_HandleRecordedBeforeNextStep ==
    main.pc \in {"submit", "cooldown"} =>
        \A k \in 1..Len(main.batch_ids) :
            /\ batch_ids_json.exists
            /\ k <= Len(batch_ids_json.batch_ids)
            /\ batch_ids_json.batch_ids[k] = main.batch_ids[k]

\* C2: each shard has at most one live (submitted or completed) provider job
\* at any time, across invocations, kills and restarts.
C2_AtMostOneLiveJobPerShard ==
    \A s \in Shards : Cardinality(LiveJobs(s)) <= 1

\* C3: each shard's results are downloaded at most once and its vectors are
\* written to the products table at most once.
C3_AppliedAtMostOnce ==
    \A s \in Shards : downloads[s] <= 1 /\ applied[s] <= 1

\* C4: once shards were submitted, under the fair specification every shard
\* of batch_ids.json eventually has its results applied.
C4_EveryShardEventuallyApplied ==
    batch_ids_json.exists ~>
        (\A s \in 1..batch_ids_json.total_batches : applied[s] >= 1)

\* C5: when the resubmission loop has ended, exactly one new job per failed
\* shard was submitted, it holds the product ids of that shard's original
\* manifest, and the handles of the other shards are unchanged.
C5_ResubmitRebuildsFailedShards ==
    main.pc = "resave" =>
        /\ Len(main.new_batch_ids) = Len(main.failed_batches)
        /\ \A s \in 1..Len(main.batch_ids) :
              IF s \in Range(main.failed_batches)
              THEN /\ main.batch_ids[s] # batch_ids_json.batch_ids[s]
                   /\ ManifestIds(jobs[main.batch_ids[s]])
                        = ManifestIds(jobs[batch_ids_json.batch_ids[s]])
              ELSE main.batch_ids[s] = batch_ids_json.batch_ids[s]

\* C6: a persisted handle whose job is gone, or ended in a terminal state
\* other than completed or failed, is listed among the failed shards, and
\* the status check is not cut short by it.
C6_StaleHandleTreatedAsFailed ==
    /\ main.pc # "crashed"
    /\ main.pc = "decide" =>
          \A k \in 1..Len(main.seen) :
              main.seen[k] \notin {"completed", "failed", "in_progress"}
                  => k \in Range(main.failed_batches)


\* the pipeline has finished: the state file names the jobs of every shard,
\* the result file of each has been applied and main has returned
PipelineFinished ==
    /\ main.pc = "stopped"
    /\ batch_ids_json.exists
    /\ \A s \in 1..batch_ids_json.total_batches : applied[s] >= 1

\* C14: once the pipeline has finished, every product with a vector holds the
\* vector the provider returns for the product's current embedding_text.
C14_VectorsMatchCurrentText ==
    PipelineFinished =>
        \A p \in ProductIds :
            products[p].embedding # NULL =>
                products[p].embedding = Embed(products[p].embedding_text)


(***************************************************************************)
(* Part II.  update_supabase_with_embeddings on an arbitrary result file   *)
(***************************************************************************)
BatchIdle ==
    /\ batch_ids_json = NoState
    /\ jobs = <<>>
    /\ result_files = [s \in Shards |-> NoFile]
    /\ main = Stopped
    /\ downloads = [s \in Shards |-> 0]
    /\ applied = [s \in Shards |-> 0]

\* a line of a result file: an error entry, or the vector of one request;
\* custom_id str(NProducts + 1) is an id no product has
CustomIds == {PyStr(n) : n \in 1..(NProducts + 1)}

ResultLines ==
    [custom_id : CustomIds, error : {TRUE}, embedding : {NULL}]
        \cup [custom_id : CustomIds, error : {FALSE}, embedding : Vectors]

\* result files: the provider answers each request once, so ids are distinct
ResultFiles ==
    UNION {{f \in [1..n -> ResultLines] :
               \A a, b \in 1..n : a # b => f[a].custom_id # f[b].custom_id} :
           n \in 0..MaxLines}

ApplyInit ==
    /\ products \in [ProductIds -> [embedding_text : {"old"}, embedding : {NULL, Embed("old")}]]
    /\ apply_file \in ResultFiles
    /\ apply_pre = products
    /\ apply_ret = <<>>
    /\ BatchIdle
    /\ MapIdle
    /\ ScriptsIdle

\* one call of update_supabase_with_embeddings(results_file)
ApplyRun ==
    /\ apply_ret = <<>>
    /\ LET ret == update_supabase_with_embeddings(products, apply_file)
       IN  /\ products' = ret.db
           /\ apply_ret' = <<ret.updated, ret.failed>>
    /\ UNCHANGED <<apply_file, apply_pre>>
    /\ UNCHANGED <<batch_ids_json, jobs, result_files, main, downloads, applied>>
    /\ UNCHANGED <<mapVars, scriptVars>>

ApplyNext == ApplyRun

ApplySpec == ApplyInit /\ [][ApplyNext]_vars

GoodLines(file) == {k \in 1..Len(file) : ~file[k].error}
ErrorLines(file) == {k \in 1..Len(file) : file[k].error}

\* C7: after update_supabase_with_embeddings, every product named by a line
\* without error holds that line's vector, no other product row is changed
\* (neither one named only by an error line nor one absent from the file),
\* failed counts the error lines, and updated + failed is the number of lines.
C7_ResultFileApplied ==
    apply_ret # <<>> =>
        /\ \A k \in GoodLines(apply_file) :
              \A p \in DOMAIN products :
                  PyStr(p) = apply_file[k].custom_id =>
                      products[p].embedding = apply_file[k].embedding
        /\ \A p \in DOMAIN products :
              /\ products[p].embedding_text = apply_pre[p].embedding_text
              /\ (\A k \in GoodLines(apply_file) : apply_file[k].custom_id # PyStr(p))
                    => products[p] = apply_pre[p]
        /\ apply_ret[2] = Cardinality(ErrorLines(apply_file))
        /\ apply_ret[1] + apply_ret[2] = Len(apply_file)

\* C7 witness: a file with an error line and more good lines than one flush
\* holds has been applied and changed a stored vector.
C7_Witness ==
    /\ apply_ret # <<>>
    /\ Cardinality(ErrorLines(apply_file)) = 1
    /\ Cardinality(GoodLines(apply_file)) > BATCH_SIZE
    /\ \E p \in DOMAIN products : products[p].embedding # apply_pre[p].embedding


(***************************************************************************)
(* Part III.  create_product_mappings.py                                   *)
(***************************************************************************)
StyleKeys == {"K1", "K2"}
EmbeddingValues == {"e1", "e2", "e3"}

\* 1 - (a <=> b), the cosine similarity of pgvector, in thousandths
Similarity(a, b) ==
    IF a = b THEN 1000
    ELSE IF {a, b} = {"e1", "e2"} THEN 820
    ELSE IF {a, b} = {"e1", "e3"} THEN 912
    ELSE 760

\* round(similarity, 2), in hundredths
Round2(similarity) == (similarity + 5) \div 10

\* main's min_similarity = 0.85 and the lower setting of the function's
\* parameter, in thousandths
MainMinSimilarity == 850
MinSimilarities == {800, MainMinSimilarity}

\* column default of product_mapping.is_default_alias
IsDefaultAliasDefault == FALSE

MappedAliases(pm) == {pm[k].alias_product_id : k \in 1..Len(pm)}

\* INSERT ... without an ON CONFLICT clause acting (a seeded fault)
InsertAlways(pm, row) == Append(pm, row)

\* INSERT ... ON CONFLICT (alias_product_id) DO NOTHING; mapping_id is serial
InsertOnConflictDoNothing(pm, row) ==
    IF row.alias_product_id \in MappedAliases(pm) THEN pm ELSE Append(pm, row)

\* a seeded fault: the join compares keys as python would (None = None) and
\* the IS NOT NULL filter is missing
StyleIdJoinNullsEqual(cat, pm) ==
    {r \in (1..Len(cat)) \X (1..Len(cat)) :
        /\ cat[r[1]].style_id_normalized = cat[r[2]].style_id_normalized
        /\ cat[r[1]].platform = "alias"
        /\ cat[r[2]].platform = "stockx"
        /\ r[1] \notin MappedAliases(pm)}

\* the SELECT of map_by_style_id: (ap, sp) pairs joined on the normalized key
StyleIdJoin(cat, pm) ==
    {r \in (1..Len(cat)) \X (1..Len(cat)) :
        /\ cat[r[1]].style_id_normalized # NULL
        /\ cat[r[2]].style_id_normalized # NULL
        /\ cat[r[1]].style_id_normalized = cat[r[2]].style_id_normalized
        /\ cat[r[1]].platform = "alias"
        /\ cat[r[2]].platform = "stockx"
        /\ r[1] \notin MappedAliases(pm)}

StyleIdRow(r) ==
    [alias_product_id |-> r[1], stockx_product_id |-> r[2], confidence_score |-> 100,
     mapping_method |-> "style_id_match", is_default_alias |-> IsDefaultAliasDefault]

\* the rows of the SELECT reach the INSERT in an order the query does not fix
RECURSIVE InsertSelected(_, _)
InsertSelected(rows, pm) ==
    IF rows = {} THEN {pm}
    ELSE UNION {InsertSelected(rows \ {r}, InsertOnConflictDoNothing(pm, StyleIdRow(r))) :
                r \in rows}

\* map_by_style_id: the tables it may leave
map_by_style_id(cat, pm) == InsertSelected(StyleIdJoin(cat, pm), pm)

\* "Get all unmapped alias products"
UnmappedAliasProducts(cat, pm) ==
    {a \in 1..Len(cat) : /\ cat[a].platform = "alias"
                         /\ cat[a].embedding # NULL
                         /\ a \notin MappedAliases(pm)}

EmbeddedStockx(cat) ==
    {x \in 1..Len(cat) : cat[x].platform = "stockx" /\ cat[x].embedding # NULL}

\* a seeded fault: LIMIT 1 without the ORDER BY similarity DESC
AnyEmbeddedStockx(cat, a) == EmbeddedStockx(cat)

\* ORDER BY similarity DESC LIMIT 1: the rows fetchone() may return
MostSimilar(cat, a) ==
    {x \in EmbeddedStockx(cat) :
        \A y \in EmbeddedStockx(cat) :
            Similarity(cat[a].embedding, cat[x].embedding)
                >= Similarity(cat[a].embedding, cat[y].embedding)}

EmbeddingRow(cat, a, x) ==
    [alias_product_id |-> a, stockx_product_id |-> x,
     confidence_score |-> Round2(Similarity(cat[a].embedding, cat[x].embedding)),
     mapping_method |-> "embedding_similarity", is_default_alias |-> IsDefaultAliasDefault]

\* the loop over alias_products, fetched in an order the query does not fix
RECURSIVE MapRemaining(_, _, _, _)
MapRemaining(cat, todo, pm, min_similarity) ==
    IF todo = {} THEN {pm}
    ELSE UNION {
           IF MostSimilar(cat, a) = {}
              \/ \A x \in MostSimilar(cat, a) :
                     Similarity(cat[a].embedding, cat[x].embedding) < min_similarity
           THEN MapRemaining(cat, todo \ {a}, pm, min_similarity)
           ELSE UNION {MapRemaining(cat, todo \ {a},
                           InsertOnConflictDoNothing(pm, EmbeddingRow(cat, a, x)),
                           min_similarity) : x \in MostSimilar(cat, a)}
           : a \in todo}

\* map_by_embedding_similarity: the tables it may leave
map_by_embedding_similarity(cat, pm, min_similarity) ==
    MapRemaining(cat, UnmappedAliasProducts(cat, pm), pm, min_similarity)

\* ROW_NUMBER() OVER (PARTITION BY stockx_product_id
\*                    ORDER BY confidence_score DESC, mapping_id ASC) = 1
RankOne(pm, k) ==
    \A j \in 1..Len(pm) :
        (j # k /\ pm[j].stockx_product_id = pm[k].stockx_product_id) =>
            \/ pm[k].confidence_score > pm[j].confidence_score
            \/ (pm[k].confidence_score = pm[j].confidence_score /\ k < j)

\* set_default_aliases: UPDATE ... SET is_default_alias = TRUE on rank 1 rows
set_default_aliases(pm) ==
    [k \in 1..Len(pm) |->
        IF RankOne(pm, k) THEN [pm[k] EXCEPT !.is_default_alias = TRUE] ELSE pm[k]]

\* rows a migration may insert.  Only alias-to-stockx similarities are ever
\* computed, so alias rows carry one vector and stockx rows range over all:
\* every similarity level of the table above occurs between them.
CatalogRows ==
    [platform : {"alias"},
     style_id_normalized : StyleKeys \cup {NULL},
     embedding : {"e1", NULL}]
      \cup
    [platform : {"stockx"},
     style_id_normalized : StyleKeys \cup {NULL},
     embedding : EmbeddingValues \cup {NULL}]

NoMapStep == UNCHANGED <<batchVars, applyVars, scriptVars>>

Other == [op |-> "other", pre_empty |-> FALSE]

\* a product is inserted by a migration between two runs
AddProduct(row) ==
    /\ Len(catalog) < MaxProducts
    /\ catalog' = Append(catalog, row)
    /\ last_run' = Other
    /\ UNCHANGED product_mapping
    /\ NoMapStep

MapByStyleId ==
    /\ \E pm \in map_by_style_id(catalog, product_mapping) : product_mapping' = pm
    /\ last_run' = [op |-> "map_by_style_id", pre_empty |-> product_mapping = <<>>]
    /\ UNCHANGED catalog
    /\ NoMapStep

MapByEmbeddingSimilarity(min_similarity) ==
    /\ \E pm \in map_by_embedding_similarity(catalog, product_mapping, min_similarity) :
           product_mapping' = pm
    /\ last_run' = Other
    /\ UNCHANGED catalog
    /\ NoMapStep

\* main: map_by_style_id, map_by_embedding_similarity(0.85), set_default_aliases
MappingMain ==
    /\ \E pm1 \in map_by_style_id(catalog, product_mapping) :
         \E pm2 \in map_by_embedding_similarity(catalog, pm1, MainMinSimilarity) :
             product_mapping' = set_default_aliases(pm2)
    /\ last_run' = [op |-> "main", pre_empty |-> FALSE]
    /\ UNCHANGED catalog
    /\ NoMapStep

MapInit ==
    /\ catalog = <<>>
    /\ product_mapping = <<>>
    /\ last_run = Other
    /\ products = [p \in ProductIds |-> [embedding_text |-> NULL, embedding |-> NULL]]
    /\ BatchIdle
    /\ ApplyIdle
    /\ ScriptsIdle

MapNext ==
    \/ \E row \in CatalogRows : AddProduct(row)
    \/ MapByStyleId
    \/ \E min_similarity \in MinSimilarities : MapByEmbeddingSimilarity(min_similarity)
    \/ MappingMain

MapSpec == MapInit /\ [][MapNext]_vars


(***************************************************************************)
(* Claims about the product mapping                                        *)
(***************************************************************************)
Aliases == {a \in 1..Len(catalog) : catalog[a].platform = "alias"}
Stockx == {x \in 1..Len(catalog) : catalog[x].platform = "stockx"}

MappingsOfAlias(a) == {k \in 1..Len(product_mapping) : product_mapping[k].alias_product_id = a}
MappingsOfStockx(x) == {k \in 1..Len(product_mapping) : product_mapping[k].stockx_product_id = x}

\* stockx products carrying the (non-null) normalized style key of alias a
SameKeyStockx(a) ==
    {x \in Stockx : /\ catalog[a].style_id_normalized # NULL
                    /\ catalog[x].style_id_normalized = catalog[a].style_id_normalized}

\* C8: in every reachable state the mapping table holds at most one row per
\* alias product.
C8_OneMappingPerAlias ==
    \A a \in Aliases : Cardinality(MappingsOfAlias(a)) <= 1

\* C8 witness: an alias product that shares its key with two stockx products
\* has been mapped by map_by_style_id.
C8_Witness ==
    \E a \in Aliases :
        /\ Cardinality(SameKeyStockx(a)) >= 2
        /\ \E k \in MappingsOfAlias(a) : product_mapping[k].mapping_method = "style_id_match"

\* C9: after a completed run of main, every stockx product with a mapping has
\* exactly one default mapping, and it is the one of highest confidence_score,
\* ties broken by lowest mapping_id.
C9_OneDefaultPerTarget ==
    last_run.op = "main" =>
        \A x \in Stockx :
            MappingsOfStockx(x) # {} =>
                {k \in MappingsOfStockx(x) : product_mapping[k].is_default_alias}
                    = {k \in MappingsOfStockx(x) : RankOne(product_mapping, k)}

\* C10: after map_by_style_id ran on an empty mapping table, exactly the alias
\* products whose non-null key equals the key of some stockx product are
\* mapped, each to a stockx product of the same key, by the style-id method,
\* with confidence_score 1.0.
C10_ExactKeyPass ==
    (last_run.op = "map_by_style_id" /\ last_run.pre_empty) =>
        /\ \A a \in Aliases :
              IF SameKeyStockx(a) # {}
              THEN \E k \in MappingsOfAlias(a) :
                      /\ product_mapping[k].stockx_product_id \in SameKeyStockx(a)
                      /\ product_mapping[k].mapping_method = "style_id_match"
                      /\ product_mapping[k].confidence_score = 100
              ELSE MappingsOfAlias(a) = {}
        /\ \A k \in 1..Len(product_mapping) :
              /\ product_mapping[k].confidence_score = 100
              /\ product_mapping[k].alias_product_id \in Aliases

\* C10 witness: the pass ran on an empty table, mapped one alias product and
\* left another, whose key no stockx product carries, unmapped.
C10_Witness ==
    /\ last_run.op = "map_by_style_id"
    /\ last_run.pre_empty
    /\ \E a, b \in Aliases :
          /\ MappingsOfAlias(a) # {}
          /\ catalog[b].style_id_normalized # NULL
          /\ MappingsOfAlias(b) = {}

\* the rows a step appended to product_mapping
NewMappings == (Len(product_mapping) + 1)..Len(product_mapping')

\* the highest similarity between alias product a and an embedded stockx
\* product is below t, or there is no embedded stockx product at all
NoneSimilarEnough(a, t) ==
    \A y \in Stockx :
        catalog[y].embedding # NULL =>
            Similarity(catalog[a].embedding, catalog[y].embedding) < t

\* what one call map_by_embedding_similarity(min_similarity = t) may do to the
\* mapping table
EmbeddingPassEffect(t) ==
    /\ Len(product_mapping') >= Len(product_mapping)
    /\ SubSeq(product_mapping', 1, Len(product_mapping)) = product_mapping
    /\ \A k \in NewMappings :
          LET row == product_mapping'[k]
              a == row.alias_product_id
              x == row.stockx_product_id
          IN  /\ row.mapping_method = "embedding_similarity"
              /\ a \in Aliases
              /\ MappingsOfAlias(a) = {}
              /\ catalog[a].embedding # NULL
              /\ x \in Stockx
              /\ catalog[x].embedding # NULL
              /\ Similarity(catalog[a].embedding, catalog[x].embedding) >= t
              /\ \A y \in Stockx :
                    catalog[y].embedding # NULL =>
                        Similarity(catalog[a].embedding, catalog[y].embedding)
                            <= Similarity(catalog[a].embedding, catalog[x].embedding)
              /\ row.confidence_score
                    = Round2(Similarity(catalog[a].embedding, catalog[x].embedding))
    /\ \A a \in Aliases :
          (catalog[a].embedding # NULL /\ NoneSimilarEnough(a, t)) =>
              \A k \in NewMappings : product_mapping'[k].alias_product_id # a

Separators == {"-", "_", " "}
Chars == Separators \cup {"0", "a", "A"}

\* the strings of at most n characters
StringsUpTo(n) == UNION {[1..k -> Chars] : k \in 0..n}

\* str.replace(old, '')
Replace(string, old) == SelectSeq(string, LAMBDA ch : ch # old)

\* str.upper()
Upper(string) == [k \in 1..Len(string) |-> IF string[k] = "a" THEN "A" ELSE string[k]]

\* str.lstrip(chars)
RECURSIVE LStrip(_, _)
LStrip(string, chars) ==
    IF string # <<>> /\ Head(string) \in chars THEN LStrip(Tail(string), chars) ELSE string

\* str.rstrip(chars)
RECURSIVE RStrip(_, _)
RStrip(string, chars) ==
    IF string # <<>> /\ string[Len(string)] \in chars
    THEN RStrip(SubSeq(string, 1, Len(string) - 1), chars)
    ELSE string

\* str.strip(): the only whitespace among Chars is the space
Strip(string) == RStrip(LStrip(string, {" "}), {" "})

\* python's `x or y` on strings
Or(x, y) == IF x # <<>> THEN x ELSE y

normalize_style_id(style_id) ==
    IF style_id = None \/ style_id = <<>> \/ Strip(style_id) = <<>>
    THEN None
    ELSE LET normalized == Upper(Replace(Replace(Replace(style_id, "-"), " "), "_"))
             stripped == IF normalized # <<"0">>
                         THEN Or(LStrip(normalized, {"0"}), <<"0">>)
                         ELSE normalized
         IN  IF stripped # <<>> THEN stripped ELSE None

\* a hyphen, an underscore or a space is inserted after position k
InsertSeparator(k, ch) ==
    /\ ~norm_result.done
    /\ decorated # None
    /\ k \in 0..Len(decorated)
    /\ Len(decorated) < Len(plain) + MaxDecorations
    /\ decorated' = SubSeq(decorated, 1, k) \o <<ch>> \o SubSeq(decorated, k + 1, Len(decorated))
    /\ UNCHANGED <<plain, norm_result>>
    /\ UNCHANGED <<batchVars, applyVars, mapVars, insertVars, migrateVars, toolVars>>

\* the letter at position k changes case
ChangeCase(k) ==
    /\ ~norm_result.done
    /\ decorated # None
    /\ k \in 1..Len(decorated)
    /\ decorated[k] \in {"a", "A"}
    /\ decorated' = [decorated EXCEPT ![k] = IF @ = "a" THEN "A" ELSE "a"]
    /\ UNCHANGED <<plain, norm_result>>
    /\ UNCHANGED <<batchVars, applyVars, mapVars, insertVars, migrateVars, toolVars>>

\* the migration normalizes both spellings, and the stored result once more
NormalizeStyleId ==
    /\ ~norm_result.done
    /\ norm_result' = [done |-> TRUE,
                       plain |-> normalize_style_id(plain),
                       decorated |-> normalize_style_id(decorated),
                       again |-> normalize_style_id(normalize_style_id(plain))]
    /\ UNCHANGED <<plain, decorated>>
    /\ UNCHANGED <<batchVars, applyVars, mapVars, insertVars, migrateVars, toolVars>>

NormInit ==
    /\ plain \in StringsUpTo(MaxLen) \cup {None}
    /\ decorated = plain
    /\ norm_result = NotNormalized
    /\ products = [p \in ProductIds |-> [embedding_text |-> NULL, embedding |-> NULL]]
    /\ BatchIdle
    /\ ApplyIdle
    /\ MapIdle
    /\ InsertIdle
    /\ MigrateIdle
    /\ ToolsIdle

NormNext ==
    \/ \E k \in 0..(MaxLen + MaxDecorations), ch \in Separators : InsertSeparator(k, ch)
    \/ \E k \in 1..(MaxLen + MaxDecorations) : ChangeCase(k)
    \/ NormalizeStyleId

NormSpec == NormInit /\ [][NormNext]_vars


(***************************************************************************)
(* Claims about normalize_style_id                                         *)
(***************************************************************************)
\* C12: whenever a style id and a decorated spelling of it (hyphens,
\* underscores or spaces inserted, letter case changed) have been normalized,
\* both results are equal, and normalizing a non-null result again returns it
\* unchanged.
C12_IdempotentDecorationInvariant ==
    norm_result.done =>
        /\ norm_result.decorated = norm_result.plain
        /\ norm_result.plain # None => norm_result.again = norm_result.plain

WithoutSeparators(string) == SelectSeq(string, LAMBDA ch : ch \notin Separators)

AllZeros(string) == \A k \in 1..Len(string) : string[k] = "0"

\* C13: the result is null for a null input, a blank input and an input that
\* is empty once its separators are removed; it is "0" for an input whose
\* remaining characters are all zeros; otherwise it is the input without
\* separators, in upper case, without leading zeros.
C13_NormalizedValue ==
    norm_result.done =>
        IF plain = None \/ WithoutSeparators(plain) = <<>>
        THEN norm_result.plain = None
        ELSE IF AllZeros(WithoutSeparators(plain))
        THEN norm_result.plain = <<"0">>
        ELSE norm_result.plain = LStrip(Upper(WithoutSeparators(plain)), {"0"})


(***************************************************************************)
(* Part V.  Chunked insert of all products without embeddings              *)
(*                                                                         *)
(* insert_all_products_no_embeddings.py wraps the statement of a chunk in  *)
(* retry_db_operation; steps 1 and 2 of master_migration_fresh.py execute  *)
(* the same statement unwrapped and build the text in another order.       *)
(***************************************************************************)
\* chunk size, scaled down from 1000 (500 in master_migration_fresh.py)
INSERT_BATCH_SIZE == 1

\* retry_db_operation(func, max_retries=3)
max_retries == 3

InsertScripts == {"insert_all_products_no_embeddings", "master_migration_fresh"}

\* the style ids (stockx styleId, alias sku) and the one title of the source
SourceStyleIds == {None, <<"a", "-", "0">>, <<"0", "a">>}
SourceTitle == <<"a", "_", "A">>

\* productId / catalogId of the k-th row of a source table
SourceId(k) == <<"p">> \o PyStr(k)

\* source tables: productId / catalogId, title / name, styleId / sku;
\* the alias products carry the id strings of the first stockx products
SourceTables ==
    {[stockx |-> [k \in 1..NStockx |->
                     [id |-> SourceId(k), title |-> SourceTitle, style_id |-> sx[k]]],
      alias |-> [k \in 1..NAlias |->
                     [id |-> SourceId(k), title |-> SourceTitle, style_id |-> al[k]]]] :
        sx \in [1..NStockx -> SourceStyleIds], al \in [1..NAlias -> SourceStyleIds]}

\* re.sub(r'\s+', ' ', text)
RECURSIVE CollapseSpaces(_)
CollapseSpaces(text) ==
    IF Len(text) < 2 THEN text
    ELSE IF text[1] = " " /\ text[2] = " " THEN CollapseSpaces(Tail(text))
    ELSE <<text[1]>> \o CollapseSpaces(Tail(text))

\* normalize_text_for_embedding: hyphens and underscores become spaces, runs
\* of spaces collapse, the ends are stripped (parentheses, quotes and "Wmns"
\* do not occur among Chars)
normalize_text_for_embedding(text) ==
    IF text = None \/ text = <<>> THEN <<>>
    ELSE Strip(CollapseSpaces(
             [k \in 1..Len(text) |-> IF text[k] \in {"-", "_"} THEN " " ELSE text[k]]))

\* generate_embedding_text_stockx / generate_embedding_text_alias of the two
\* scripts: "STYLE | name" in insert_all_products_no_embeddings.py,
\* "name STYLE" (stockx) and "SKU name" (alias) in master_migration_fresh.py
generate_embedding_text_stockx(script, platform, name, style_id) ==
    LET normalized_name == normalize_text_for_embedding(name)
        normalized_style ==
            IF style_id = None \/ style_id = <<>> THEN <<>>
            ELSE Upper(Replace(Replace(Replace(style_id, " "), "-"), "_"))
    IN  IF style_id = None \/ style_id = <<>> THEN normalized_name
        ELSE IF script = "insert_all_products_no_embeddings"
        THEN Strip(normalized_style \o <<" ", "|", " ">> \o normalized_name)
        ELSE IF platform = "stockx"
        THEN Strip(normalized_name \o <<" ">> \o normalized_style)
        ELSE Strip(normalized_style \o <<" ">> \o normalized_name)

\* the vector the embedding provider returns for a text
EmbeddingOf(text) == <<"vector of">> \o text

\* values_list: the rows of one chunk (product_id_internal is serial)
ValuesList(script, platform, batch) ==
    [k \in 1..Len(batch) |->
        [product_id_internal |-> 0,
         product_id_platform |-> batch[k].id,
         platform |-> platform,
         product_name_platform |-> Upper(batch[k].title),
         style_id_normalized |-> normalize_style_id(batch[k].style_id),
         embedding_text |->
             generate_embedding_text_stockx(script, platform, batch[k].title,
                                            batch[k].style_id),
         embedding |-> None]]

\* position of the row with a natural key, 0 when there is none
RowOf(table, product_id_platform, platform) ==
    IF \E k \in 1..Len(table) : /\ table[k].product_id_platform = product_id_platform
                                /\ table[k].platform = platform
    THEN CHOOSE k \in 1..Len(table) : /\ table[k].product_id_platform = product_id_platform
                                      /\ table[k].platform = platform
    ELSE 0

\* INSERT ... ON CONFLICT (product_id_platform, platform)
\* DO UPDATE SET embedding_text = EXCLUDED.embedding_text, embedding = NULL
RECURSIVE insert_batch(_, _)
insert_batch(table, values_list) ==
    IF values_list = <<>> THEN table
    ELSE LET row == Head(values_list)
             k == RowOf(table, row.product_id_platform, row.platform)
         IN  insert_batch(
                 IF k = 0
                 THEN Append(table, [row EXCEPT !.product_id_internal = Len(table) + 1])
                 ELSE [table EXCEPT ![k].embedding_text = row.embedding_text,
                                    ![k].embedding = None],
                 Tail(values_list))

NoInsertStep ==
    UNCHANGED <<batchVars, applyVars, mapVars, normVars, migrateVars, toolVars>>

\* the source system edits the style id of a product between two runs (the
\* script has exited: "returned" and "raised" mark the state it left behind)
SourceChanges(platform, k, style_id) ==
    /\ insert.pc # "batch"
    /\ insert.runs = 1
    /\ k \in 1..Len(mysql[platform])
    /\ mysql[platform][k].style_id # style_id
    /\ mysql' = [mysql EXCEPT ![platform][k].style_id = style_id]
    /\ insert' = [insert EXCEPT !.pc = "idle"]
    /\ UNCHANGED <<products_table, table_before>>
    /\ NoInsertStep

\* a later step stores the vector of every row that has a text and no vector
\* (step3_generate_embeddings: UPDATE products SET embedding = ...)
StoreEmbeddings ==
    /\ insert.pc # "batch"
    /\ \E k \in 1..Len(products_table) : products_table[k].embedding = None
    /\ products_table' =
         [k \in 1..Len(products_table) |->
             IF products_table[k].embedding = None /\ products_table[k].embedding_text # <<>>
             THEN [products_table[k] EXCEPT !.embedding = EmbeddingOf(products_table[k].embedding_text)]
             ELSE products_table[k]]
    /\ insert' = [insert EXCEPT !.pc = "idle"]
    /\ UNCHANGED <<mysql, table_before>>
    /\ NoInsertStep

\* main of either script: the prompt, then insert_stockx fetches its source
InsertMain(script, response) ==
    /\ insert.pc # "batch"
    /\ insert.runs < MaxRuns
    /\ IF response # "y"
       THEN UNCHANGED <<insert, table_before>>
       ELSE /\ insert' = [NotInserting EXCEPT !.pc = "batch", !.script = script,
                                             !.platform = "stockx",
                                             !.products = mysql.stockx,
                                             !.runs = insert.runs + 1]
            /\ table_before' = products_table
    /\ UNCHANGED <<mysql, products_table>>
    /\ NoInsertStep

\* one execution of the statement of the current chunk.  An OperationalError
\* (or InterfaceError) is retried by retry_db_operation up to max_retries
\* attempts in insert_all_products_no_embeddings.py; any other error, the
\* error of the last attempt and every error in master_migration_fresh.py
\* leave the loop, the function and main.  After the last chunk of
\* insert_stockx, insert_alias fetches its source and continues.
InsertBatch(outcome) ==
    /\ insert.pc = "batch"
    /\ LET batch == Slice(insert.products, insert.batch_start,
                          insert.batch_start + INSERT_BATCH_SIZE)
           values_list == ValuesList(insert.script, insert.platform, batch)
           tried == insert.attempted \cup {<<insert.platform, insert.batch_start>>}
           total == Len(insert.products)
       IN  IF total = 0 \/ outcome = "ok"
           THEN /\ products_table' =
                     IF total = 0 THEN products_table
                     ELSE insert_batch(products_table, values_list)
                /\ insert' =
                     IF insert.batch_start + INSERT_BATCH_SIZE < total
                     THEN [insert EXCEPT !.batch_start = @ + INSERT_BATCH_SIZE,
                                         !.attempt = 0,
                                         !.inserted = @ + Len(batch),
                                         !.attempted = tried]
                     ELSE IF insert.platform = "stockx"
                     THEN [insert EXCEPT !.platform = "alias",
                                         !.products = mysql.alias,
                                         !.batch_start = 0,
                                         !.attempt = 0,
                                         !.inserted = 0,
                                         !.attempted = IF total = 0 THEN @ ELSE tried]
                     ELSE [insert EXCEPT !.pc = "returned",
                                         !.attempt = 0,
                                         !.inserted = @ + Len(batch),
                                         !.attempted = IF total = 0 THEN @ ELSE tried]
           ELSE /\ UNCHANGED products_table
                /\ insert' =
                     IF /\ outcome = "OperationalError"
                        /\ insert.script = "insert_all_products_no_embeddings"
                        /\ insert.attempt < max_retries - 1
                     THEN [insert EXCEPT !.attempt = @ + 1, !.attempted = tried]
                     ELSE [insert EXCEPT !.pc = "raised", !.attempted = tried]
    /\ UNCHANGED <<mysql, table_before>>
    /\ NoInsertStep

InsertInit ==
    /\ mysql \in SourceTables
    /\ products_table = <<>>
    /\ insert = NotInserting
    /\ table_before = <<>>
    /\ products = [p \in ProductIds |-> [embedding_text |-> NULL, embedding |-> NULL]]
    /\ BatchIdle
    /\ ApplyIdle
    /\ MapIdle
    /\ NormIdle
    /\ MigrateIdle
    /\ ToolsIdle

InsertNext ==
    \/ \E platform \in {"stockx", "alias"}, k \in 1..NStockx, style_id \in SourceStyleIds :
           SourceChanges(platform, k, style_id)
    \/ StoreEmbeddings
    \/ \E script \in InsertScripts, response \in {"y", "n"} : InsertMain(script, response)
    \/ \E outcome \in {"ok", "OperationalError", "ProgrammingError"} : InsertBatch(outcome)

InsertSpec == InsertInit /\ [][InsertNext]_vars


(***************************************************************************)
(* Claims about the chunked insert                                         *)
(***************************************************************************)
Platforms == {"stockx", "alias"}

\* C15: when a run of the insert script has returned, every source record
\* whose natural key was in products before the run has a row whose
\* embedding_text, embedding and style_id_normalized are the values derived
\* from the source record, and whose product_id_internal is the one it had
\* before the run.
C15_UpsertReplacesDerivedFields ==
    insert.pc = "returned" =>
        \A platform \in Platforms :
            \A k \in 1..Len(mysql[platform]) :
                LET incoming == ValuesList(insert.script, platform, <<mysql[platform][k]>>)[1]
                    before == RowOf(table_before, incoming.product_id_platform, platform)
                    now == RowOf(products_table, incoming.product_id_platform, platform)
                IN  before # 0 =>
                        /\ now # 0
                        /\ products_table[now].embedding_text = incoming.embedding_text
                        /\ products_table[now].embedding = incoming.embedding
                        /\ products_table[now].style_id_normalized
                               = incoming.style_id_normalized
                        /\ products_table[now].product_id_internal
                               = table_before[before].product_id_internal

\* the chunks range(0, total, INSERT_BATCH_SIZE) of a source table
ChunkStarts(total) == {b \in 0..total : b < total /\ b % INSERT_BATCH_SIZE = 0}

\* C19: when a run of the insert script has ended, by returning or by an
\* error of a chunk, every chunk of both source tables has been attempted.
C19_LaterChunksAttempted ==
    insert.pc \in {"returned", "raised"} =>
        \A platform \in Platforms :
            \A b \in ChunkStarts(Len(mysql[platform])) :
                <<platform, b>> \in insert.attempted


(***************************************************************************)
(* Part VI.  Migrations that embed while they insert                       *)
(*                                                                         *)
(* migrate_products_full.py runs three phases; each phase hands the        *)
(* products it embedded to the insert_worker thread through a Queue, and   *)
(* SIGINT sets stop_event.  migrate_alias_remaining.py embeds and inserts  *)
(* the alias products that are not in products yet, one chunk at a time.   *)
(***************************************************************************)
\* generate_embedding(text, retry_count=3), generate_embeddings_batch(texts, retry_count=3)
retry_count == 3

\* BATCH_SIZE of migrate_alias_remaining.py, scaled down from 500
REMAINING_BATCH_SIZE == 1

MigrateScripts == {"migrate_products_full", "migrate_alias_remaining"}

\* the unique constraints of products: the pair (product_id_platform,
\* platform) alone, or the pair and product_id_platform on its own
Schemas == {"pair", "both"}

\* the (name, sku) of an alias product
AliasKinds ==
    {[title |-> SourceTitle, style_id |-> <<"0", "a">>],
     [title |-> <<>>, style_id |-> None]}

\* source tables of a migration: stockx_products, alias_products and the
\* style ids between brackets in inventory.item
MigrationSources ==
    {[stockx |-> [k \in 1..MigStockx |->
                     [id |-> SourceId(k), title |-> SourceTitle, style_id |-> sx[k]]],
      alias |-> [k \in 1..MigAlias |->
                     [id |-> SourceId(k), title |-> al[k].title,
                      style_id |-> al[k].style_id]],
      inventory |-> inv] :
        sx \in [1..MigStockx -> {None, <<"0", "a">>}],
        al \in [1..MigAlias -> AliasKinds],
        inv \in {{}, {<<"0", "a">>}}}

\* destination inventory: a row to link for the first alias product and a
\* row of the second that is linked already
InventoryRows ==
    <<[alias_catalog_id |-> SourceId(1), product_id_internal |-> 0],
      [alias_catalog_id |-> SourceId(2), product_id_internal |-> 9]>>

\* normalize_text_for_embedding of migrate_products_full.py
full_normalize_text_for_embedding(text) ==
    IF text = None \/ text = <<>> THEN <<>>
    ELSE Replace(Replace(text, "_"), "-")

full_generate_embedding_text_stockx(title, style_id) ==
    LET normalized_title ==
            IF title # None /\ title # <<>>
            THEN full_normalize_text_for_embedding(title) ELSE <<>>
    IN  IF style_id # None /\ style_id # <<>>
        THEN Strip(full_normalize_text_for_embedding(style_id) \o <<" ">>
                   \o normalized_title)
        ELSE normalized_title

full_generate_embedding_text_alias(name, sku) ==
    LET normalized_name ==
            IF name # None /\ name # <<>>
            THEN full_normalize_text_for_embedding(name) ELSE <<>>
    IN  IF sku # None /\ sku # <<>>
        THEN Strip(normalized_name \o <<" ">>
                   \o full_normalize_text_for_embedding(sku))
        ELSE normalized_name

transform_stockx_product(product) ==
    [product_id_internal |-> 0,
     product_id_platform |-> product.id,
     platform |-> "stockx",
     product_name_platform |-> product.title,
     style_id_normalized |-> normalize_style_id(product.style_id),
     embedding_text |-> full_generate_embedding_text_stockx(product.title,
                                                            product.style_id),
     embedding |-> None]

transform_alias_product(product) ==
    [product_id_internal |-> 0,
     product_id_platform |-> product.id,
     platform |-> "alias",
     product_name_platform |-> product.title,
     style_id_normalized |-> None,
     embedding_text |-> full_generate_embedding_text_alias(product.title,
                                                           product.style_id),
     embedding |-> None]

Transformed(records, transform(_)) == [k \in 1..Len(records) |-> transform(records[k])]

\* JOIN ... ON sp.styleId = i.extracted_styleId
fetch_stockx_inventory_subset(db) ==
    SelectSeq(db.stockx, LAMBDA r : r.style_id \in db.inventory)

\* JOIN ... ON ap.sku = REPLACE(extracted_styleId, '-', ' ')
fetch_alias_inventory_subset(db) ==
    SelectSeq(db.alias,
              LAMBDA r : \E item \in db.inventory :
                  r.style_id = [k \in 1..Len(item) |->
                                   IF item[k] = "-" THEN " " ELSE item[k]])

\* get_migrated_ids: the empty set when the query raises
get_migrated_ids(table, platform, raises) ==
    IF raises THEN {}
    ELSE {table[k].product_id_platform :
              k \in {j \in 1..Len(table) : table[j].platform = platform}}

fetch_stockx_with_style_id_exclude_migrated(db, migrated_ids) ==
    SelectSeq(db.stockx, LAMBDA r : /\ r.style_id # None /\ r.style_id # <<>>
                                    /\ r.id \notin migrated_ids)

fetch_stockx_without_style_id_exclude_migrated(db, migrated_ids) ==
    SelectSeq(db.stockx, LAMBDA r : /\ (r.style_id = None \/ r.style_id = <<>>)
                                    /\ r.id \notin migrated_ids)

fetch_alias_exclude_migrated(db, migrated_ids) ==
    SelectSeq(db.alias, LAMBDA r : r.id \notin migrated_ids)

\* the transformed products of a phase of main; failing holds the platforms
\* whose get_migrated_ids query raises
PhaseProducts(phase, db, table, failing) ==
    LET stockx_ids == get_migrated_ids(table, "stockx", "stockx" \in failing)
        alias_ids == get_migrated_ids(table, "alias", "alias" \in failing)
    IN  IF phase = 1
        THEN Transformed(fetch_stockx_inventory_subset(db), transform_stockx_product)
             \o Transformed(fetch_alias_inventory_subset(db), transform_alias_product)
        ELSE IF phase = 2
        THEN Transformed(fetch_stockx_with_style_id_exclude_migrated(db, stockx_ids),
                         transform_stockx_product)
        ELSE Transformed(fetch_stockx_without_style_id_exclude_migrated(db, stockx_ids),
                         transform_stockx_product)
             \o Transformed(fetch_alias_exclude_migrated(db, alias_ids),
                            transform_alias_product)

\* a provider call that gives up after its second attempt
RetryOnce(attempt) == attempt < 1

\* if attempt < retry_count - 1: time.sleep(2 ** attempt)
ShouldRetry(attempt) == attempt < retry_count - 1
RetryWait(attempt) == 2 ^ attempt

KeyOf(product) == <<product.product_id_platform, product.platform>>

\* position of a row with a product_id_platform, 0 when there is none
RowOfId(table, product_id_platform) ==
    IF \E k \in 1..Len(table) : table[k].product_id_platform = product_id_platform
    THEN CHOOSE k \in 1..Len(table) : table[k].product_id_platform = product_id_platform
    ELSE 0

\* insert_query of insert_worker: INSERT ... ON CONFLICT (product_id_platform)
\* DO UPDATE SET product_name_platform, style_id_normalized, platform_data,
\* embedding, embedding_text.  The statement raises when no unique
\* constraint matches the conflict target.
insert_query(unique, table, product) ==
    LET k == RowOfId(table, product.product_id_platform)
    IN  IF unique = "pair" THEN [raised |-> TRUE, table |-> table]
        ELSE IF k = 0
        THEN [raised |-> FALSE,
              table |-> Append(table,
                               [product EXCEPT !.product_id_internal = Len(table) + 1])]
        ELSE [raised |-> FALSE,
              table |-> [table EXCEPT
                  ![k].product_name_platform = product.product_name_platform,
                  ![k].style_id_normalized = product.style_id_normalized,
                  ![k].embedding = product.embedding,
                  ![k].embedding_text = product.embedding_text]]

\* what client.embeddings.create does: it returns, or raises a transient
\* or a permanent error
ProviderErrors == {"RateLimitError", "BadRequestError"}
ProviderOutcomes == {"ok"} \cup ProviderErrors

NoMigrateStep ==
    UNCHANGED <<batchVars, applyVars, mapVars, normVars, mysql, insert, table_before,
                schema, toolVars>>

Started == [pc |-> "get", product |-> <<>>, timeouts |-> worker.timeouts,
            aborted |-> FALSE]

\* python migrate_products_full.py: a new process
FullMain ==
    /\ migrate.script = "migrate_products_full"
    /\ migrate.pc \in {"idle", "done", "stopped"}
    /\ migrate.run < MaxMigrations
    /\ migrate' = [NotMigrating EXCEPT !.script = migrate.script, !.pc = "fetch",
                                       !.phase = 1, !.run = migrate.run + 1]
    /\ stop_event' = FALSE
    /\ stats' = NoStats
    /\ queue' = <<>>
    /\ worker' = NoWorker
    /\ history' = [history EXCEPT !.generated = {}, !.settled = {},
                                  !.handed = 0, !.unsuccessful = 0]
    /\ UNCHANGED <<products_table, inventory>>
    /\ NoMigrateStep

\* signal_handler
Interrupt ==
    /\ migrate.script = "migrate_products_full"
    /\ migrate.pc \notin {"idle", "done", "stopped"}
    /\ ~stop_event
    /\ stop_event' = TRUE
    /\ UNCHANGED <<products_table, inventory, queue, stats, migrate, worker, history>>
    /\ NoMigrateStep

\* main: the fetch and transform of a phase, then process_with_queue up to
\* worker.start(), or nothing when the phase has no product
FetchPhase(failing) ==
    /\ migrate.pc = "fetch"
    /\ LET all_phase == PhaseProducts(migrate.phase, mysql, products_table, failing)
           keys == {KeyOf(all_phase[k]) : k \in 1..Len(all_phase)}
       IN  /\ migrate' = [migrate EXCEPT
                   !.products = all_phase, !.i = 1, !.attempt = 0, !.waits = <<>>,
                   !.pc = IF all_phase # <<>> THEN "loop" ELSE "phase_end"]
           /\ worker' = IF all_phase # <<>> THEN Started ELSE worker
           /\ history' = [history EXCEPT
                   !.refetched = IF migrate.phase > 1
                                 THEN @ \cup (keys \cap history.written) ELSE @,
                   !.generated = {}, !.settled = {},
                   !.handed = @ + Len(all_phase)]
    /\ queue' = <<>>
    /\ UNCHANGED <<products_table, inventory, stop_event, stats>>
    /\ NoMigrateStep

\* process_with_queue: the head of the loop over the products; when the loop
\* ends or breaks, queue.put(None)
ProcessNext ==
    /\ migrate.pc = "loop"
    /\ IF migrate.i > Len(migrate.products) \/ stop_event
       THEN /\ queue' = Append(queue, <<>>)
            /\ migrate' = [migrate EXCEPT !.pc = "join"]
            /\ UNCHANGED stats
       ELSE IF migrate.products[migrate.i].embedding_text = <<>>
       THEN /\ stats' = [stats EXCEPT !.skipped = @ + 1]
            /\ migrate' = [migrate EXCEPT !.i = @ + 1]
            /\ UNCHANGED queue
       ELSE /\ migrate' = [migrate EXCEPT !.pc = "generate", !.attempt = 0,
                                          !.waits = <<>>]
            /\ UNCHANGED <<queue, stats>>
    /\ UNCHANGED <<products_table, inventory, stop_event, worker, history>>
    /\ NoMigrateStep

\* generate_embedding: the head of an attempt
AttemptStart ==
    /\ migrate.pc = "generate"
    /\ IF stop_event
       THEN /\ stats' = [stats EXCEPT !.failed = @ + 1]
            /\ migrate' = [migrate EXCEPT !.pc = "loop", !.i = @ + 1]
            /\ history' = [history EXCEPT !.unsuccessful = @ + 1]
       ELSE /\ migrate' = [migrate EXCEPT !.pc = "request"]
            /\ UNCHANGED <<stats, history>>
    /\ UNCHANGED <<products_table, inventory, stop_event, queue, worker>>
    /\ NoMigrateStep

\* generate_embedding: client.embeddings.create returns or raises; a vector
\* goes into the queue with its product
AttemptEnd(outcome) ==
    /\ migrate.pc = "request"
    /\ LET product == migrate.products[migrate.i]
       IN  IF outcome = "ok"
           THEN /\ stats' = [stats EXCEPT !.generated = @ + 1]
                /\ queue' = Append(queue,
                       <<[product EXCEPT !.embedding = EmbeddingOf(product.embedding_text)]>>)
                /\ migrate' = [migrate EXCEPT !.pc = "loop", !.i = @ + 1]
                /\ history' = [history EXCEPT !.generated = @ \cup {KeyOf(product)}]
           ELSE IF ShouldRetry(migrate.attempt)
           THEN /\ migrate' = [migrate EXCEPT
                       !.pc = "generate", !.attempt = @ + 1,
                       !.waits = Append(@, RetryWait(migrate.attempt))]
                /\ UNCHANGED <<stats, queue, history>>
           ELSE /\ stats' = [stats EXCEPT !.failed = @ + 1]
                /\ migrate' = [migrate EXCEPT !.pc = "loop", !.i = @ + 1]
                /\ history' = [history EXCEPT !.unsuccessful = @ + 1]
                /\ UNCHANGED queue
    /\ UNCHANGED <<products_table, inventory, stop_event, worker>>
    /\ NoMigrateStep

\* insert_worker: one turn of while not stop_event.is_set() or not
\* queue.empty() up to the statement: queue.get(timeout=1) returns an item or
\* raises queue.Empty, which is one of the exceptions the loop counts
WorkerGet ==
    /\ worker.pc = "get"
    /\ IF stop_event /\ queue = <<>>
       THEN /\ worker' = [worker EXCEPT !.pc = "exited"]
            /\ UNCHANGED <<queue, stats>>
       ELSE IF queue # <<>>
       THEN /\ queue' = Tail(queue)
            /\ worker' = IF Head(queue) = <<>>
                         THEN [worker EXCEPT !.pc = "exited"]
                         ELSE [worker EXCEPT !.pc = "execute", !.product = Head(queue)[1]]
            /\ UNCHANGED stats
       ELSE /\ worker.timeouts < MaxTimeouts
            /\ stats' = [stats EXCEPT !.failed = @ + 1]
            /\ worker' = [worker EXCEPT !.timeouts = @ + 1]
            /\ UNCHANGED queue
    /\ UNCHANGED <<products_table, inventory, stop_event, migrate, history>>
    /\ NoMigrateStep

\* insert_worker: cursor.execute(insert_query), conn.commit(); nothing rolls
\* a failed transaction back, so every later statement raises as well
WorkerExecute(outcome) ==
    /\ worker.pc = "execute"
    /\ LET result == IF worker.aborted \/ outcome # "ok"
                     THEN [raised |-> TRUE, table |-> products_table]
                     ELSE insert_query(schema, products_table, worker.product)
           key == KeyOf(worker.product)
       IN  IF result.raised
           THEN /\ worker' = [worker EXCEPT !.pc = "get", !.product = <<>>,
                                            !.aborted = TRUE]
                /\ stats' = IF stop_event THEN stats
                            ELSE [stats EXCEPT !.failed = @ + 1]
                /\ history' = [history EXCEPT
                       !.settled = IF stop_event THEN @ ELSE @ \cup {key},
                       !.unsuccessful = @ + 1]
                /\ UNCHANGED products_table
           ELSE /\ worker' = [worker EXCEPT !.pc = "get", !.product = <<>>]
                /\ products_table' = result.table
                /\ stats' = [stats EXCEPT !.inserted = @ + 1]
                /\ history' = [history EXCEPT !.settled = @ \cup {key},
                                              !.written = @ \cup {key}]
    /\ UNCHANGED <<inventory, stop_event, queue, migrate>>
    /\ NoMigrateStep

\* process_with_queue: worker.join() returns
Join ==
    /\ migrate.pc = "join"
    /\ worker.pc = "exited"
    /\ migrate' = [migrate EXCEPT !.pc = "phase_end"]
    /\ UNCHANGED <<products_table, inventory, stop_event, queue, stats, worker, history>>
    /\ NoMigrateStep

\* history: products when the first run ended, and whether that run went
\* through all phases without a failure
AfterRun(complete) ==
    IF migrate.run = 1
    THEN [history EXCEPT !.after_first_run = products_table,
                         !.first_run = IF complete THEN "complete" ELSE "partial"]
    ELSE history

\* main: after a phase, return when stopped (phases 1 and 2), print the
\* summary (phase 3) or go to the next phase
PhaseEnd ==
    /\ migrate.pc = "phase_end"
    /\ IF migrate.phase < 3 /\ stop_event
       THEN /\ migrate' = [migrate EXCEPT !.pc = "stopped"]
            /\ history' = AfterRun(FALSE)
       ELSE IF migrate.phase = 3
       THEN /\ migrate' = [migrate EXCEPT !.pc = "done"]
            /\ history' = AfterRun(~stop_event /\ stats.failed = 0)
       ELSE /\ migrate' = [migrate EXCEPT !.pc = "fetch", !.phase = @ + 1]
            /\ UNCHANGED history
    /\ UNCHANGED <<products_table, inventory, stop_event, queue, stats, worker>>
    /\ NoMigrateStep

\* ---- migrate_alias_remaining.py
\* generate_embedding_text_alias of migrate_alias_remaining.py
remaining_generate_embedding_text_alias(name, sku) ==
    LET normalized_name ==
            IF name # None /\ name # <<>> THEN normalize_text_for_embedding(name)
            ELSE <<>>
    IN  IF sku # None /\ sku # <<>>
        THEN Strip(Replace(Replace(Replace(sku, "-"), "_"), " ") \o <<" ">>
                   \o normalized_name)
        ELSE normalized_name

fetch_remaining_alias_products(db, table) ==
    SelectSeq(db.alias,
              LAMBDA r : r.id \notin get_migrated_ids(table, "alias", FALSE))

\* products[batch_start:batch_end]
BatchOf(records, batch_start) ==
    SubSeq(records, batch_start + 1,
           IF batch_start + REMAINING_BATCH_SIZE < Len(records)
           THEN batch_start + REMAINING_BATCH_SIZE ELSE Len(records))

\* the values of the INSERT of one product
RemainingRow(product, embedding) ==
    [product_id_internal |-> 0,
     product_id_platform |-> product.id,
     platform |-> "alias",
     product_name_platform |-> Upper(product.title),
     style_id_normalized |-> normalize_style_id(product.style_id),
     embedding_text |-> remaining_generate_embedding_text_alias(product.title,
                                                               product.style_id),
     embedding |-> embedding]

\* INSERT ... ON CONFLICT (product_id_platform, platform) DO NOTHING
\* RETURNING product_id_internal, for each product of the chunk: a statement
\* that raises leaves the transaction failed, so the later ones raise too
RECURSIVE insert_products(_, _, _, _, _)
insert_products(unique, rows, fail_at, k, acc) ==
    IF k > Len(rows) THEN acc
    ELSE LET row == rows[k]
             raised == \/ acc.aborted
                       \/ k = fail_at
                       \/ /\ unique = "both"
                          /\ RowOf(acc.table, row.product_id_platform, "alias") = 0
                          /\ RowOfId(acc.table, row.product_id_platform) # 0
             id == Len(acc.table) + 1
         IN  insert_products(unique, rows, fail_at, k + 1,
                 IF raised
                 THEN [acc EXCEPT !.failed = @ + 1, !.aborted = TRUE]
                 ELSE IF RowOf(acc.table, row.product_id_platform, "alias") # 0
                 THEN acc
                 ELSE [acc EXCEPT
                          !.table = Append(@, [row EXCEPT !.product_id_internal = id]),
                          !.product_id_map = @ \cup {<<row.product_id_platform, id>>},
                          !.inserted = @ + 1])

\* UPDATE inventory SET product_id_internal = %s
\* WHERE alias_catalog_id = %s AND product_id_internal IS NULL
Linked(rows, product_id_map) ==
    {j \in 1..Len(rows) :
        /\ rows[j].product_id_internal = 0
        /\ \E m \in product_id_map : m[1] = rows[j].alias_catalog_id}

update_inventory(rows, product_id_map) ==
    [j \in 1..Len(rows) |->
        IF j \in Linked(rows, product_id_map)
        THEN [rows[j] EXCEPT !.product_id_internal =
                 (CHOOSE m \in product_id_map : m[1] = rows[j].alias_catalog_id)[2]]
        ELSE rows[j]]

\* python migrate_alias_remaining.py, up to the loop over the chunks
RemainingMain(response) ==
    /\ migrate.script = "migrate_alias_remaining"
    /\ migrate.pc \in {"idle", "done", "cancelled"}
    /\ migrate.run < MaxMigrations
    /\ LET remaining == fetch_remaining_alias_products(mysql, products_table)
       IN  migrate' = [NotMigrating EXCEPT
               !.script = migrate.script, !.run = migrate.run + 1,
               !.products = remaining,
               !.pc = IF Len(remaining) = 0 THEN "done"
                      ELSE IF response # "y" THEN "cancelled" ELSE "chunk"]
    /\ stats' = NoStats
    /\ UNCHANGED <<products_table, inventory, stop_event, queue, worker, history>>
    /\ NoMigrateStep

\* main: for batch_start in range(0, total, BATCH_SIZE)
RemainingNext ==
    /\ migrate.pc = "chunk"
    /\ migrate' = IF migrate.i >= Len(migrate.products)
                  THEN [migrate EXCEPT !.pc = "done"]
                  ELSE [migrate EXCEPT !.pc = "embed", !.attempt = 0, !.waits = <<>>,
                                       !.embeddings = <<>>]
    /\ UNCHANGED <<products_table, inventory, stop_event, queue, stats, worker, history>>
    /\ NoMigrateStep

\* generate_embeddings_batch: one attempt; then the check of the vectors
\* returned ("short" is a response with a vector too few)
RemainingEmbed(outcome) ==
    /\ migrate.pc = "embed"
    /\ LET batch == BatchOf(migrate.products, migrate.i)
           embeddings ==
               [k \in 1..(IF outcome = "short" THEN Len(batch) - 1 ELSE Len(batch)) |->
                   EmbeddingOf(remaining_generate_embedding_text_alias(
                                   batch[k].title, batch[k].style_id))]
       IN  IF outcome \in ProviderErrors /\ ShouldRetry(migrate.attempt)
           THEN /\ migrate' = [migrate EXCEPT
                       !.attempt = @ + 1,
                       !.waits = Append(@, RetryWait(migrate.attempt))]
                /\ UNCHANGED stats
           ELSE IF \/ outcome \in ProviderErrors
                   \/ embeddings = <<>>
                   \/ Len(embeddings) # Len(batch)
           THEN /\ stats' = [stats EXCEPT !.failed = @ + Len(batch)]
                /\ migrate' = [migrate EXCEPT !.pc = "chunk",
                                              !.i = @ + REMAINING_BATCH_SIZE]
           ELSE /\ migrate' = [migrate EXCEPT !.pc = "insert",
                                              !.embeddings = embeddings]
                /\ UNCHANGED stats
    /\ UNCHANGED <<products_table, inventory, stop_event, queue, worker, history>>
    /\ NoMigrateStep

\* main: the inserts of a chunk, the links of inventory, conn.commit(); the
\* commit of a failed transaction rolls the chunk back
RemainingInsert(fail_at) ==
    /\ migrate.pc = "insert"
    /\ LET batch == BatchOf(migrate.products, migrate.i)
           rows == [k \in 1..Len(batch) |-> RemainingRow(batch[k], migrate.embeddings[k])]
           done == insert_products(schema, rows, fail_at, 1,
                       [table |-> products_table, product_id_map |-> {},
                        inserted |-> 0, failed |-> 0, aborted |-> FALSE])
       IN  /\ products_table' = IF done.aborted THEN products_table ELSE done.table
           /\ inventory' = IF done.aborted THEN inventory
                           ELSE update_inventory(inventory, done.product_id_map)
           /\ stats' = [stats EXCEPT
                  !.inserted = @ + done.inserted,
                  !.failed = @ + done.failed,
                  !.inventory_updated = @ +
                      IF done.aborted THEN 0
                      ELSE Cardinality(Linked(inventory, done.product_id_map))]
           /\ history' = IF done.aborted THEN history
                         ELSE [history EXCEPT !.written = @ \cup
                                  {<<m[1], "alias">> : m \in done.product_id_map}]
    /\ migrate' = [migrate EXCEPT !.pc = "chunk", !.i = @ + REMAINING_BATCH_SIZE]
    /\ UNCHANGED <<stop_event, queue, worker>>
    /\ NoMigrateStep

MigrateInit ==
    /\ mysql \in MigrationSources
    /\ products_table = <<>>
    /\ insert = NotInserting
    /\ table_before = <<>>
    /\ schema \in Schemas
    /\ inventory = InventoryRows
    /\ stop_event = FALSE
    /\ queue = <<>>
    /\ stats = NoStats
    /\ migrate \in {[NotMigrating EXCEPT !.script = script] : script \in MigrateScripts}
    /\ worker = NoWorker
    /\ history = NoHistory
    /\ ToolsIdle
    /\ products = [p \in ProductIds |-> [embedding_text |-> NULL, embedding |-> NULL]]
    /\ BatchIdle
    /\ ApplyIdle
    /\ MapIdle
    /\ NormIdle

MigrateNext ==
    \/ FullMain
    \/ Interrupt
    \/ \E failing \in SUBSET Platforms : FetchPhase(failing)
    \/ ProcessNext
    \/ AttemptStart
    \/ \E outcome \in ProviderOutcomes : AttemptEnd(outcome)
    \/ WorkerGet
    \/ \E outcome \in {"ok", "error"} : WorkerExecute(outcome)
    \/ Join
    \/ PhaseEnd
    \/ \E response \in {"y", "n"} : RemainingMain(response)
    \/ RemainingNext
    \/ \E outcome \in ProviderOutcomes \cup {"short"} : RemainingEmbed(outcome)
    \/ \E fail_at \in 0..REMAINING_BATCH_SIZE : RemainingInsert(fail_at)

MigrateSpec == MigrateInit /\ [][MigrateNext]_vars


(***************************************************************************)
(* Claims about the migrations that embed while they insert                *)
(***************************************************************************)
\* what the source holds, transformed as migrate_products_full transforms it
SourceProducts ==
    Transformed(mysql.stockx, transform_stockx_product)
    \o Transformed(mysql.alias, transform_alias_product)

\* main went through its three phases, was not stopped and counted no failure
CompleteRun == migrate.pc = "done" /\ ~stop_event /\ stats.failed = 0

EverySourceKeyHasRow ==
    \A j \in 1..Len(SourceProducts) :
        SourceProducts[j].embedding_text # <<>> =>
            RowOf(products_table, SourceProducts[j].product_id_platform,
                  SourceProducts[j].platform) # 0

\* C16: in a migration by migrate_products_full, every row of products
\* carries the name, the text and the vector of the source record with the
\* row's own (product_id_platform, platform), and after a complete run each
\* source pair has its own row.
C16_UpsertKeyedOnPair ==
    migrate.script = "migrate_products_full" =>
        /\ \A k \in 1..Len(products_table) :
               \E j \in 1..Len(SourceProducts) :
                   LET own == SourceProducts[j]
                       row == products_table[k]
                   IN  /\ KeyOf(own) = KeyOf(row)
                       /\ row.product_name_platform = own.product_name_platform
                       /\ row.embedding_text = own.embedding_text
                       /\ row.embedding = EmbeddingOf(own.embedding_text)
        /\ CompleteRun => EverySourceKeyHasRow

\* C17: over the runs of migrate_products_full on an unchanged source, no two
\* rows share a natural key, a complete run leaves a row for every source
\* key, a run after a complete first run leaves the row count as it was, the
\* rows that existed after the first run keep their product_id_internal, and
\* phases 2 and 3 never fetch a record that was inserted before.
C17_RerunIdempotent ==
    migrate.script = "migrate_products_full" =>
        /\ \A j, k \in 1..Len(products_table) :
               KeyOf(products_table[j]) = KeyOf(products_table[k]) => j = k
        /\ CompleteRun /\ migrate.run > 1 => EverySourceKeyHasRow
        /\ history.first_run = "complete" =>
               Len(products_table) = Len(history.after_first_run)
        /\ \A k \in 1..Len(history.after_first_run) :
               /\ k <= Len(products_table)
               /\ KeyOf(products_table[k]) = KeyOf(history.after_first_run[k])
               /\ products_table[k].product_id_internal
                      = history.after_first_run[k].product_id_internal
        /\ history.refetched = {}

\* C18: when process_with_queue has returned, every product for which
\* generate_embedding returned a vector has been written or counted as a
\* failed insert, and no product is left in the queue.
C18_NothingGeneratedIsDropped ==
    migrate.pc = "phase_end" =>
        /\ history.generated \subseteq history.settled
        /\ \A k \in 1..Len(queue) : queue[k] = <<>>

\* the records of the unit the provider is called for
UnitSize ==
    IF migrate.script = "migrate_alias_remaining"
    THEN Len(BatchOf(migrate.products, migrate.i)) ELSE 1

\* the provider call of the current unit raises
ProviderRaises ==
    \E error \in ProviderErrors : AttemptEnd(error) \/ RemainingEmbed(error)

\* after the first and the second attempt: a wait of 1 s, then of 2 s, and
\* the same unit again; after the third: no wait, the unit counted as failed
\* with its size, nothing of it written or queued, and on to the next unit
ProviderRaisesEffect ==
    IF migrate.attempt < 2
    THEN /\ migrate'.attempt = migrate.attempt + 1
         /\ migrate'.waits = Append(migrate.waits, IF migrate.attempt = 0 THEN 1 ELSE 2)
         /\ migrate'.i = migrate.i
         /\ stats' = stats
         /\ UNCHANGED <<products_table, queue, inventory>>
    ELSE /\ migrate'.waits = migrate.waits
         /\ stats' = [stats EXCEPT !.failed = @ + UnitSize]
         /\ UNCHANGED <<products_table, queue, inventory>>
         /\ migrate'.i > migrate.i
         /\ migrate'.pc \in {"loop", "chunk"}

\* a call is in its first, second or third attempt, having waited once for
\* each attempt before
AttemptsBounded == migrate.attempt < 3 /\ Len(migrate.waits) = migrate.attempt

\* the loop over the input ends only when every unit has been visited (or,
\* in process_with_queue, when the run was stopped)
WholeInputVisited ==
    /\ migrate.script = "migrate_products_full" /\ migrate.pc \in {"join", "phase_end"}
       /\ ~stop_event
           => migrate.i > Len(migrate.products)
    /\ migrate.script = "migrate_alias_remaining" /\ migrate.pc = "done"
           => migrate.i >= Len(migrate.products)

PermanentError == AttemptEnd("BadRequestError") \/ RemainingEmbed("BadRequestError")

\* C21: a provider call that raises a permanent error is not made again for
\* its unit: no wait follows, the unit is counted as failed at once and the
\* loop goes on to the next unit.
C21_PermanentErrorNotRetried ==
    [][PermanentError =>
           /\ migrate'.waits = migrate.waits
           /\ migrate'.attempt = migrate.attempt
           /\ stats' = [stats EXCEPT !.failed = @ + UnitSize]
           /\ migrate'.i > migrate.i]_vars

\* C22: when process_with_queue has returned in a run that was not stopped,
\* failed is the number of products without a vector or with an insert that
\* raised, and inserted, failed and skipped add up to the number of products
\* handed to process_with_queue in the run.
C22_CountersExact ==
    migrate.pc = "phase_end" /\ ~stop_event =>
        /\ stats.failed = history.unsuccessful
        /\ stats.inserted + stats.failed + stats.skipped = history.handed


(***************************************************************************)
(* Claim about the determinism of map_by_style_id                          *)
(***************************************************************************)
\* the (alias product, stockx product) pairs of a mapping table
MappingPairs(pm) == {<<pm[k].alias_product_id, pm[k].stockx_product_id>> : k \in 1..Len(pm)}

\* C27: a run of map_by_style_id on an empty mapping table leaves the pairs
\* that every other run on the same products leaves.
C27_StyleIdPassDeterministic ==
    [][(MapByStyleId /\ product_mapping = <<>>) =>
           \A pm \in map_by_style_id(catalog, <<>>) :
               MappingPairs(pm) = MappingPairs(product_mapping')]_vars


(***************************************************************************)
(* Part VII: master_migration_fresh.py, step3_generate_embeddings          *)
(*                                                                         *)
(* The products table is a sequence in product_id_internal order; a row    *)
(* carries the two columns the step reads and writes.  The chunk size is   *)
(* BATCH_SIZE of the script, drawn from Step3ChunkSizes so that tables of  *)
(* one, two and more chunks occur.                                         *)
(***************************************************************************)
Step3ChunkSizes == 1..MaxChunk

Step3Text == <<"t">>

Step3RowKinds ==
    { [embedding_text |-> Step3Text, embedding |-> None],
      [embedding_text |-> Step3Text, embedding |-> EmbeddingOf(Step3Text)],
      [embedding_text |-> None, embedding |-> None] }

Step3Tables ==
    UNION { { [k \in 1..n |-> [product_id_internal |-> k,
                               embedding_text |-> kinds[k].embedding_text,
                               embedding |-> kinds[k].embedding]] :
              kinds \in [1..n -> Step3RowKinds] } : n \in 0..MaxStep3Rows }

\* WHERE embedding IS NULL AND embedding_text IS NOT NULL
NeedsEmbedding(row) == row.embedding = None /\ row.embedding_text # None

\* ... ORDER BY product_id_internal LIMIT size OFFSET offset
step3_select(table, size, offset) ==
    LET needing == SelectSeq(table, NeedsEmbedding)
        last == Min(offset + size, Len(needing))
    IN  SubSeq(needing, offset + 1, last)

\* the UPDATE of every row of the chunk
step3_update(table, batch) ==
    [k \in 1..Len(table) |->
        IF \E b \in 1..Len(batch) :
               batch[b].product_id_internal = table[k].product_id_internal
        THEN [table[k] EXCEPT !.embedding = EmbeddingOf(table[k].embedding_text)]
        ELSE table[k]]

\* the COUNT query and the prompt
Step3Main(response) ==
    /\ step3.pc = "idle"
    /\ table_before' = products_table
    /\ step3' = [step3 EXCEPT
                    !.pc = IF response = "y" THEN "loop" ELSE "cancelled",
                    !.total = Len(SelectSeq(products_table, NeedsEmbedding)),
                    !.offset = 0,
                    !.processed = 0]
    /\ UNCHANGED products_table

\* one iteration of "for offset in range(0, total, BATCH_SIZE)", or its end
Step3Chunk(outcome) ==
    /\ step3.pc = "loop"
    /\ LET batch == step3_select(products_table, step3.chunk_size, step3.offset)
       IN  IF step3.offset >= step3.total \/ batch = <<>>
           THEN /\ outcome = "ok"
                /\ step3' = [step3 EXCEPT !.pc = "returned"]
                /\ UNCHANGED products_table
           ELSE IF outcome = "ok"
           THEN /\ products_table' = step3_update(products_table, batch)
                /\ step3' = [step3 EXCEPT !.offset = @ + step3.chunk_size,
                                           !.processed = @ + Len(batch)]
           ELSE /\ step3' = [step3 EXCEPT !.offset = @ + step3.chunk_size,
                                           !.provider_failed = TRUE]
                /\ UNCHANGED products_table
    /\ UNCHANGED table_before

Step3Frame ==
    UNCHANGED <<batchVars, applyVars, mapVars, normVars, migrateVars, mysql, insert,
                task_queue, result_queue, threads, linking, ladder>>

Step3Init ==
    /\ products_table \in Step3Tables
    /\ step3 \in {[NotEmbedding EXCEPT !.chunk_size = size] : size \in Step3ChunkSizes}
    /\ table_before = <<>>
    /\ mysql = NoSource
    /\ insert = NotInserting
    /\ task_queue = <<>>
    /\ result_queue = <<>>
    /\ threads = <<>>
    /\ linking = NotLinking
    /\ ladder = NotIndexing
    /\ products = [p \in ProductIds |-> [embedding_text |-> NULL, embedding |-> NULL]]
    /\ BatchIdle
    /\ ApplyIdle
    /\ MapIdle
    /\ NormIdle
    /\ MigrateIdle

Step3Next ==
    \/ (\E response \in {"y", "n"} : Step3Main(response)) /\ Step3Frame
    \/ (\E outcome \in {"ok", "failed"} : Step3Chunk(outcome)) /\ Step3Frame

Step3Spec == Step3Init /\ [][Step3Next]_vars

\* C28: when step3_generate_embeddings has returned from its loop and no call
\* to the provider failed, every product that had text and no embedding when
\* it started has an embedding.
C28_EveryProductEmbedded ==
    step3.pc = "returned" /\ ~step3.provider_failed =>
        \A k \in 1..Len(table_before) :
            NeedsEmbedding(table_before[k]) => products_table[k].embedding # None


(***************************************************************************)
(* Part VIII: regenerate_embeddings.py                                     *)
(*                                                                         *)
(* main, NUM_WORKERS embedding_worker threads and one update_worker thread *)
(* around two queues.  NUM_WORKERS and the updater's batch length are      *)
(* scaled down from 10 and 50.  stats[k] += 1 is a read of the entry, an   *)
(* addition and a write of the entry, with no lock around them: a worker   *)
(* reads in one step and writes in another.  stop_event is set only after  *)
(* main has raised, so it stays clear while main runs.  A get that times   *)
(* out on an empty queue leaves a worker where it was and is not a step.   *)
(***************************************************************************)
NUM_WORKERS == 2
UPDATE_BATCH == 2

Workers == 1..NUM_WORKERS

RegenNames == {<<"a">>, None}

RegenTables ==
    UNION { { [k \in 1..n |-> [product_id_internal |-> k,
                               product_name_platform |-> names[k],
                               embedding |-> None]] :
              names \in [1..n -> RegenNames] } : n \in 0..MaxRegen }

RegenStats == [generated |-> 0, updated |-> 0, failed |-> 0]

RegenHistory == [queued |-> 0, vectors |-> {}]

\* embedding_text = product_name.upper() if product_name else ""
regen_embedding_text(product_name) ==
    IF product_name = None THEN <<>> ELSE Upper(product_name)

NotStarted == [pc |-> "not_started", task |-> <<>>, key |-> "", read |-> 0]

RegenThreads(pc) ==
    [main |-> [pc |-> pc, products |-> <<>>, i |-> 0, unfinished_tasks |-> 0],
     workers |-> [w \in Workers |-> NotStarted],
     updater |-> [pc |-> "not_started", batch |-> <<>>]]

\* main up to the start of the threads
RegenMain(response) ==
    /\ threads.main.pc = "idle"
    /\ threads' =
           IF response = "y"
           THEN [main |-> [pc |-> "put", products |-> products_table, i |-> 0,
                           unfinished_tasks |-> 0],
                 workers |-> [w \in Workers |-> [NotStarted EXCEPT !.pc = "get"]],
                 updater |-> [pc |-> "collect", batch |-> <<>>]]
           ELSE [threads EXCEPT !.main.pc = "cancelled"]
    /\ UNCHANGED <<task_queue, result_queue, stats, products_table, history>>

\* one iteration of the loop over products
RegenPut ==
    /\ threads.main.pc = "put"
    /\ LET i == threads.main.i + 1
           all == threads.main.products
       IN  IF stop_event \/ i > Len(all)
           THEN /\ threads' = [threads EXCEPT !.main.pc = "join_tasks"]
                /\ UNCHANGED <<task_queue, history>>
           ELSE /\ task_queue' =
                       Append(task_queue,
                              <<all[i].product_id_internal,
                                regen_embedding_text(all[i].product_name_platform)>>)
                /\ threads' = [threads EXCEPT !.main.i = i,
                                              !.main.unfinished_tasks = @ + 1]
                /\ history' = [history EXCEPT !.queued = @ + 1]
    /\ UNCHANGED <<result_queue, stats, products_table>>

\* task_queue.join(), the poison pills, worker.join(), the updater's pill,
\* updater.join() and the summary: main goes on when what it waits for holds
RegenWait ==
    /\ UNCHANGED <<stats, products_table, history>>
    /\ IF threads.main.pc = "join_tasks"
       THEN /\ threads.main.unfinished_tasks = 0
            /\ task_queue' = task_queue \o [w \in Workers |-> <<>>]
            /\ threads' = [threads EXCEPT !.main.pc = "join_workers"]
            /\ UNCHANGED result_queue
       ELSE IF threads.main.pc = "join_workers"
       THEN /\ \A w \in Workers : threads.workers[w].pc = "exited"
            /\ result_queue' = Append(result_queue, <<>>)
            /\ threads' = [threads EXCEPT !.main.pc = "join_updater"]
            /\ UNCHANGED task_queue
       ELSE /\ threads.main.pc = "join_updater"
            /\ threads.updater.pc = "exited"
            /\ threads' = [threads EXCEPT !.main.pc = "done"]
            /\ UNCHANGED <<task_queue, result_queue>>

\* embedding_worker: the loop test and task_queue.get
WorkerTake(w) ==
    /\ threads.workers[w].pc = "get"
    /\ IF stop_event
       THEN /\ threads' = [threads EXCEPT !.workers[w].pc = "exited"]
            /\ UNCHANGED task_queue
       ELSE /\ task_queue # <<>>
            /\ task_queue' = Tail(task_queue)
            /\ threads' =
                   IF Head(task_queue) = <<>>
                   THEN [threads EXCEPT !.workers[w].pc = "exited"]
                   ELSE [threads EXCEPT !.workers[w].pc = "embed",
                                        !.workers[w].task = Head(task_queue)]
    /\ UNCHANGED <<result_queue, stats, products_table, history>>

\* embedding_worker: generate_embedding and result_queue.put
WorkerEmbed(w, outcome) ==
    /\ threads.workers[w].pc = "embed"
    /\ LET task == threads.workers[w].task
       IN  IF outcome = "ok"
           THEN /\ result_queue' = Append(result_queue, <<task[1], EmbeddingOf(task[2])>>)
                /\ history' = [history EXCEPT !.vectors = @ \cup {task[1]}]
                /\ threads' = [threads EXCEPT !.workers[w].pc = "read",
                                              !.workers[w].key = "generated"]
           ELSE /\ threads' = [threads EXCEPT !.workers[w].pc = "read",
                                              !.workers[w].key = "failed"]
                /\ UNCHANGED <<result_queue, history>>
    /\ UNCHANGED <<task_queue, stats, products_table>>

\* embedding_worker: stats[key] += 1, the read
WorkerRead(w) ==
    /\ threads.workers[w].pc = "read"
    /\ threads' = [threads EXCEPT !.workers[w].pc = "write",
                                  !.workers[w].read = stats[threads.workers[w].key]]
    /\ UNCHANGED <<task_queue, result_queue, stats, products_table, history>>

\* embedding_worker: stats[key] += 1, the write, and task_queue.task_done()
WorkerWrite(w) ==
    /\ threads.workers[w].pc = "write"
    /\ stats' = [stats EXCEPT ![threads.workers[w].key] = threads.workers[w].read + 1]
    /\ threads' = [threads EXCEPT !.workers[w].pc = "get",
                                  !.workers[w].task = <<>>,
                                  !.workers[w].key = "",
                                  !.workers[w].read = 0,
                                  !.main.unfinished_tasks = @ - 1]
    /\ UNCHANGED <<task_queue, result_queue, products_table, history>>

\* update_worker: the outer loop test and one result_queue.get of the inner
\* loop; the pill, like a timeout on an empty queue, only ends the inner loop
UpdaterCollect ==
    /\ threads.updater.pc = "collect"
    /\ IF stop_event /\ threads.updater.batch = <<>>
       THEN /\ threads' = [threads EXCEPT !.updater.pc = "exited"]
            /\ UNCHANGED result_queue
       ELSE IF result_queue = <<>>
       THEN /\ threads.updater.batch # <<>>
            /\ threads' = [threads EXCEPT !.updater.pc = "update"]
            /\ UNCHANGED result_queue
       ELSE /\ result_queue' = Tail(result_queue)
            /\ threads' =
                   IF Head(result_queue) = <<>>
                   THEN [threads EXCEPT !.updater.pc =
                            IF threads.updater.batch = <<>> THEN "collect" ELSE "update"]
                   ELSE [threads EXCEPT
                            !.updater.batch = Append(@, Head(result_queue)),
                            !.updater.pc =
                                IF Len(threads.updater.batch) + 1 < UPDATE_BATCH
                                THEN "collect" ELSE "update"]
    /\ UNCHANGED <<task_queue, stats, products_table, history>>

\* update_worker: the UPDATE of every row of the batch and the commit
UpdaterUpdate ==
    /\ threads.updater.pc = "update"
    /\ LET batch == threads.updater.batch
       IN  /\ products_table' =
                  [k \in 1..Len(products_table) |->
                      IF \E b \in 1..Len(batch) :
                             batch[b][1] = products_table[k].product_id_internal
                      THEN [products_table[k] EXCEPT !.embedding =
                               (CHOOSE b \in Range(batch) :
                                    b[1] = products_table[k].product_id_internal)[2]]
                      ELSE products_table[k]]
           /\ stats' = [stats EXCEPT !.updated = @ + Len(batch)]
    /\ threads' = [threads EXCEPT !.updater.pc = "collect", !.updater.batch = <<>>]
    /\ UNCHANGED <<task_queue, result_queue, history>>

RegenFrame ==
    UNCHANGED <<batchVars, applyVars, mapVars, normVars, mysql, insert, table_before,
                schema, inventory, stop_event, queue, migrate, worker, step3,
                linking, ladder>>

RegenInit ==
    /\ products_table \in RegenTables
    /\ task_queue = <<>>
    /\ result_queue = <<>>
    /\ threads = RegenThreads("idle")
    /\ stats = RegenStats
    /\ history = RegenHistory
    /\ stop_event = FALSE
    /\ schema = "pair"
    /\ inventory = <<>>
    /\ queue = <<>>
    /\ migrate = NotMigrating
    /\ worker = NoWorker
    /\ mysql = NoSource
    /\ insert = NotInserting
    /\ table_before = <<>>
    /\ step3 = NotEmbedding
    /\ linking = NotLinking
    /\ ladder = NotIndexing
    /\ products = [p \in ProductIds |-> [embedding_text |-> NULL, embedding |-> NULL]]
    /\ BatchIdle
    /\ ApplyIdle
    /\ MapIdle
    /\ NormIdle

MainThread == ((\E response \in {"y", "n"} : RegenMain(response)) \/ RegenPut \/ RegenWait)
                  /\ RegenFrame

WorkerThread(w) ==
    (WorkerTake(w) \/ (\E outcome \in {"ok", "failed"} : WorkerEmbed(w, outcome))
        \/ WorkerRead(w) \/ WorkerWrite(w)) /\ RegenFrame

UpdaterThread == (UpdaterCollect \/ UpdaterUpdate) /\ RegenFrame

RegenNext ==
    \/ (\E response \in {"y", "n"} : RegenMain(response)) /\ RegenFrame
    \/ RegenPut /\ RegenFrame
    \/ RegenWait /\ RegenFrame
    \/ (\E w \in Workers : WorkerTake(w)) /\ RegenFrame
    \/ (\E w \in Workers, outcome \in {"ok", "failed"} : WorkerEmbed(w, outcome)) /\ RegenFrame
    \/ (\E w \in Workers : WorkerRead(w)) /\ RegenFrame
    \/ (\E w \in Workers : WorkerWrite(w)) /\ RegenFrame
    \/ UpdaterCollect /\ RegenFrame
    \/ UpdaterUpdate /\ RegenFrame

RegenSpec == RegenInit /\ [][RegenNext]_vars

\* every thread that can take a step is scheduled
RegenLiveSpec ==
    /\ RegenSpec
    /\ WF_vars(MainThread)
    /\ \A w \in Workers : WF_vars(WorkerThread(w))
    /\ WF_vars(UpdaterThread)

\* C30: when task_queue.join() has returned, generated + failed is the number of
\* tasks main queued and generated is the number of vectors the workers put
\* on the result queue.
C30_NoLostUpdate ==
    threads.main.pc \in {"join_workers", "join_updater", "done"} =>
        /\ stats.generated + stats.failed = history.queued
        /\ stats.generated = Cardinality(history.vectors)

\* C29: main reaches its summary (or was cancelled at the prompt), and at the
\* summary every vector put on the result queue is in products.
C29_MainTerminates ==
    /\ <>(threads.main.pc \in {"done", "cancelled"})
    /\ [](threads.main.pc = "done" =>
             \A k \in 1..Len(products_table) :
                 products_table[k].product_id_internal \in history.vectors =>
                     products_table[k].embedding # None)


(***************************************************************************)
(* Part IX: the inventory scripts                                          *)
(*                                                                         *)
(* migrate_inventory_batch.py and migrate_inventory_v2.py copy the MySQL   *)
(* table inventory to the table inventory of the destination and link     *)
(* every unit to a product by its item label; link_inventory_to_products   *)
(* links the MySQL rows by platform id; migrate_alias_remaining links the  *)
(* destination rows by alias_catalog_id.  A null product_id_internal is 0. *)
(* Only the columns the linking reads or writes are kept.  The queries on  *)
(* products have no ORDER BY: the order of their rows is an input.         *)
(***************************************************************************)
InventoryScripts == {"migrate_inventory_batch", "migrate_inventory_v2"}

LinkProductKinds ==
    << [product_name_platform |-> <<"A">>, style_id_platform |-> <<"0", "A">>,
        platform |-> "stockx", product_id_platform |-> <<"x", "1">>],
       [product_name_platform |-> <<"A">>, style_id_platform |-> <<"0">>,
        platform |-> "stockx", product_id_platform |-> <<"x", "2">>],
       [product_name_platform |-> <<"0">>, style_id_platform |-> None,
        platform |-> "alias", product_id_platform |-> <<"c", "1">>] >>

LinkProductTables ==
    UNION { { [k \in 1..n |->
                  [product_id_internal |-> k,
                   product_name_platform |-> LinkProductKinds[kinds[k]].product_name_platform,
                   style_id_platform |-> LinkProductKinds[kinds[k]].style_id_platform,
                   platform |-> LinkProductKinds[kinds[k]].platform,
                   product_id_platform |-> LinkProductKinds[kinds[k]].product_id_platform]] :
              kinds \in {f \in [1..n -> 1..Len(LinkProductKinds)] :
                            \A a, b \in 1..n : a # b => f[a] # f[b]} } :
            n \in 0..MaxLinkProducts }

InventoryUnits ==
    << [sku |-> 1, item |-> <<"a", " ", "[", "a", "]">>,
        stockx_productId |-> <<"x", "1">>, alias_catalog_id |-> None,
        product_id_internal |-> 0],
       [sku |-> 2, item |-> <<"a">>,
        stockx_productId |-> <<"x", "2">>, alias_catalog_id |-> None,
        product_id_internal |-> 0],
       [sku |-> 3, item |-> <<"0", "0">>,
        stockx_productId |-> None, alias_catalog_id |-> <<"c", "1">>,
        product_id_internal |-> 0] >>

MysqlInventories ==
    { SelectSeq(InventoryUnits, LAMBDA unit : unit.sku \in skus) :
          skus \in (SUBSET (1..Len(InventoryUnits))) \ {{}} }

Lower(string) == [k \in 1..Len(string) |-> IF string[k] = "A" THEN "a" ELSE string[k]]

\* python: needle in hay
Contains(hay, needle) ==
    \E k \in 0..Len(hay) - Len(needle) : SubSeq(hay, k + 1, k + Len(needle)) = needle

\* re.sub(r'\s*\[.*?\]\s*', '', name)
RECURSIVE RemoveBracketed(_)
RemoveBracketed(name) ==
    LET opens == {i \in 1..Len(name) :
                     name[i] = "[" /\ \E j \in i + 1..Len(name) : name[j] = "]"}
    IN  IF opens = {} THEN name
        ELSE LET i == CHOOSE a \in opens : \A b \in opens : a <= b
                 closes == {j \in i + 1..Len(name) : name[j] = "]"}
                 j == CHOOSE a \in closes : \A b \in closes : a <= b
             IN  RStrip(SubSeq(name, 1, i - 1), {" "})
                     \o RemoveBracketed(LStrip(SubSeq(name, j + 1, Len(name)), {" "}))

\* normalize_item_name of migrate_inventory_batch.py
batch_normalize_item_name(item_name) ==
    IF item_name = None \/ item_name = <<>> THEN None
    ELSE CollapseSpaces(Strip(Upper(RemoveBracketed(item_name))))

\* normalize_item_name of migrate_inventory_v2.py
v2_normalize_item_name(item_name) ==
    IF item_name = None \/ item_name = <<>> THEN None
    ELSE CollapseSpaces(Strip(Lower(item_name)))

normalize_item_name(script, item_name) ==
    IF script = "migrate_inventory_batch"
    THEN batch_normalize_item_name(item_name)
    ELSE v2_normalize_item_name(item_name)

\* re.search(r'\[([^\]]+)\]', item_name)
extract_style_id_from_item(item_name) ==
    IF item_name = None \/ item_name = <<>> THEN None
    ELSE LET groups == {i \in 1..Len(item_name) :
                           /\ item_name[i] = "["
                           /\ \E j \in i + 2..Len(item_name) :
                                  /\ item_name[j] = "]"
                                  /\ \A m \in i + 1..j - 1 : item_name[m] # "]"}
         IN  IF groups = {} THEN None
             ELSE LET i == CHOOSE a \in groups : \A b \in groups : a <= b
                      closes == {j \in i + 2..Len(item_name) : item_name[j] = "]"}
                      j == CHOOSE a \in closes : \A b \in closes : a <= b
                  IN  SubSeq(item_name, i + 1, j - 1)

\* orders in which a query without ORDER BY may return the rows of a table
RowOrders(table) ==
    {f \in [1..Len(table) -> 1..Len(table)] :
        \A a, b \in 1..Len(table) : a # b => f[a] # f[b]}

QUERY_LIMIT == 5

\* the rows of products a run matches to a normalized name, as returned
name_matches(script, table, order, normalized_name) ==
    LET returned == [k \in 1..Len(table) |-> table[order[k]]]
    IN  IF script = "migrate_inventory_batch"
        THEN SelectSeq(returned, LAMBDA row : row.product_name_platform = normalized_name)
        ELSE LET found == SelectSeq(returned, LAMBDA row :
                               Lower(row.product_name_platform) = normalized_name)
             IN  SubSeq(found, 1, Min(QUERY_LIMIT, Len(found)))

\* the choice among the matches of a name: 0 when there is none
best_match(matches, extracted_style) ==
    IF matches = <<>> THEN 0
    ELSE IF Len(matches) = 1 \/ extracted_style = None THEN matches[1].product_id_internal
    ELSE LET hits == {k \in 1..Len(matches) :
                         /\ matches[k].style_id_platform # None
                         /\ matches[k].style_id_platform # <<>>
                         /\ Contains(Lower(matches[k].style_id_platform),
                                     Lower(extracted_style))}
         IN  IF hits = {} THEN matches[1].product_id_internal
             ELSE matches[CHOOSE a \in hits : \A b \in hits : a <= b].product_id_internal

\* unique_items[name]['style_id']: of the first item with that name
unique_item_style(script, items, name) ==
    LET with_name == {k \in 1..Len(items) : normalize_item_name(script, items[k].item) = name}
    IN  extract_style_id_from_item(
            items[CHOOSE a \in with_name : \A b \in with_name : a <= b].item)

build_item_to_product_cache(script, items, table, order) ==
    LET names == {normalize_item_name(script, items[k].item) : k \in 1..Len(items)} \ {None}
    IN  [name \in names |->
            best_match(name_matches(script, table, order, name),
                       unique_item_style(script, items, name))]

transform_inventory_item(script, item, item_cache) ==
    LET normalized == normalize_item_name(script, item.item)
    IN  [sku |-> item.sku, item |-> item.item, alias_catalog_id |-> item.alias_catalog_id,
         product_id_internal |->
             IF normalized # None /\ normalized \in DOMAIN item_cache
             THEN item_cache[normalized] ELSE 0]

\* INSERT ... ON CONFLICT (sku) DO UPDATE SET ... product_id_internal =
\* EXCLUDED.product_id_internal, for every item
insert_to_supabase(rows, inventory_items) ==
    [j \in 1..Len(rows) |->
        IF \E k \in 1..Len(inventory_items) : inventory_items[k].sku = rows[j].sku
        THEN [rows[j] EXCEPT !.product_id_internal =
                 (CHOOSE item \in Range(inventory_items) :
                      item.sku = rows[j].sku).product_id_internal]
        ELSE rows[j]]
    \o SelectSeq(inventory_items,
                 LAMBDA item : \A j \in 1..Len(rows) : rows[j].sku # item.sku)

\* link_inventory_products of link_inventory_to_products.py, on the MySQL rows
link_inventory_products(rows, table) ==
    LET lookup(platform, id) ==
            {table[k].product_id_internal :
                 k \in {j \in 1..Len(table) : /\ table[j].platform = platform
                                              /\ table[j].product_id_platform = id}}
        found(row) ==
            IF row.stockx_productId # None /\ lookup("stockx", row.stockx_productId) # {}
            THEN lookup("stockx", row.stockx_productId)
            ELSE IF row.alias_catalog_id # None /\ lookup("alias", row.alias_catalog_id) # {}
            THEN lookup("alias", row.alias_catalog_id)
            ELSE {}
    IN  [j \in 1..Len(rows) |->
            IF rows[j].product_id_internal = 0 /\ found(rows[j]) # {}
            THEN [rows[j] EXCEPT !.product_id_internal = CHOOSE p \in found(rows[j]) : TRUE]
            ELSE rows[j]]

\* main of an inventory script up to the cache: SELECT * FROM inventory and
\* the cache of its item names
InventoryMain(order) ==
    /\ linking.pc \in {"idle", "done"}
    /\ linking.run < MaxLinkRuns
    /\ order \in RowOrders(products_table)
    /\ LET item_cache == build_item_to_product_cache(linking.script, mysql.inventory,
                                                     products_table, order)
       IN  linking' = [linking EXCEPT
                          !.pc = "insert",
                          !.run = @ + 1,
                          !.items = mysql.inventory,
                          !.item_cache = item_cache,
                          !.first_cache = IF linking.run = 0 THEN item_cache ELSE @]
    /\ UNCHANGED <<mysql, inventory>>

\* main of an inventory script from the cache on: the items are transformed
\* and inserted; nothing is committed when the insert raises
InventoryInsert(raises) ==
    /\ linking.pc = "insert"
    /\ linking' = [linking EXCEPT !.pc = "done"]
    /\ inventory' =
           IF raises THEN inventory
           ELSE insert_to_supabase(
                    inventory,
                    [k \in 1..Len(linking.items) |->
                        transform_inventory_item(linking.script, linking.items[k],
                                                 linking.item_cache)])
    /\ UNCHANGED mysql

\* python link_inventory_to_products.py
LinkInventoryProducts ==
    /\ mysql' = [mysql EXCEPT !.inventory = link_inventory_products(@, products_table)]
    /\ mysql' # mysql
    /\ UNCHANGED <<linking, inventory>>

\* the inventory update of migrate_alias_remaining for one alias product it
\* has inserted
RemainingLink(k) ==
    /\ k \in 1..Len(products_table)
    /\ products_table[k].platform = "alias"
    /\ inventory' = update_inventory(inventory,
                                     {<<products_table[k].product_id_platform,
                                        products_table[k].product_id_internal>>})
    /\ inventory' # inventory
    /\ UNCHANGED <<linking, mysql>>

LinkFrame ==
    UNCHANGED <<batchVars, applyVars, mapVars, normVars, products_table, insert,
                table_before, schema, stop_event, queue, stats, migrate, worker,
                history, step3, task_queue, result_queue, threads, ladder>>

LinkInit ==
    /\ products_table \in LinkProductTables
    /\ mysql \in {[inventory |-> rows] : rows \in MysqlInventories}
    /\ inventory = <<>>
    /\ linking \in {[NotLinking EXCEPT !.script = script] : script \in InventoryScripts}
    /\ insert = NotInserting
    /\ table_before = <<>>
    /\ schema = "pair"
    /\ stop_event = FALSE
    /\ queue = <<>>
    /\ stats = NoStats
    /\ migrate = NotMigrating
    /\ worker = NoWorker
    /\ history = NoHistory
    /\ step3 = NotEmbedding
    /\ task_queue = <<>>
    /\ result_queue = <<>>
    /\ threads = <<>>
    /\ ladder = NotIndexing
    /\ products = [p \in ProductIds |-> [embedding_text |-> NULL, embedding |-> NULL]]
    /\ BatchIdle
    /\ ApplyIdle
    /\ MapIdle
    /\ NormIdle

LinkNext ==
    \/ (\E order \in RowOrders(products_table) : InventoryMain(order)) /\ LinkFrame
    \/ (\E raises \in BOOLEAN : InventoryInsert(raises)) /\ LinkFrame
    \/ LinkInventoryProducts /\ LinkFrame
    \/ (\E k \in 1..MaxLinkProducts : RemainingLink(k)) /\ LinkFrame

LinkSpec == LinkInit /\ [][LinkNext]_vars

\* the products whose name matches a normalized item name
Candidates(script, name) ==
    {k \in 1..Len(products_table) :
        IF script = "migrate_inventory_batch"
        THEN products_table[k].product_name_platform = name
        ELSE Lower(products_table[k].product_name_platform) = name}

\* the candidates whose style id contains the token, in any case of letters
WithToken(candidates, token) ==
    {k \in candidates :
        /\ token # None
        /\ products_table[k].style_id_platform # None
        /\ Contains(Lower(products_table[k].style_id_platform), Lower(token))}

\* C23: in the cache of a run a name without a matching product has no link,
\* a name with one matching product has that product, a name with several
\* has one of those whose style id contains the bracketed token when there
\* is one and one of the matching products otherwise; and the cache of every
\* run is the cache of the first run over the same products.
C23_LinkByName ==
    linking.pc \in {"insert", "done"} =>
        /\ \A name \in DOMAIN linking.item_cache :
               LET candidates == Candidates(linking.script, name)
                   token == unique_item_style(linking.script, linking.items, name)
                   preferred == WithToken(candidates, token)
               IN  /\ candidates = {} => linking.item_cache[name] = 0
                   /\ candidates # {} =>
                          linking.item_cache[name] \in
                              IF preferred # {} /\ Cardinality(candidates) > 1
                              THEN preferred ELSE candidates
        /\ linking.item_cache = linking.first_cache

\* the rows of a table that carry a link, by sku
LinkedUnits(rows) == {rows[j].sku : j \in {k \in 1..Len(rows) : rows[k].product_id_internal # 0}}

\* C24: no pass takes the link of an inventory unit away, in the destination
\* table and in the MySQL table.
C24_NeverUnlinked ==
    [][/\ LinkedUnits(inventory) \subseteq LinkedUnits(inventory')
       /\ LinkedUnits(mysql.inventory) \subseteq LinkedUnits(mysql'.inventory)]_vars


(***************************************************************************)
(* Part X: create_indexes_safe.py, create_vector_index_aggressive.py and   *)
(* create_vector_index_minimal.py                                          *)
(*                                                                         *)
(* Each script counts the products with an embedding, builds its list of   *)
(* (maintenance_work_mem, lists) rungs and tries CREATE INDEX rung by      *)
(* rung.  Memory is in MB.  What the database answers to an attempt is an  *)
(* input: the index is built, it exists already, the build runs out of     *)
(* memory, or the statement fails for another reason.                      *)
(***************************************************************************)
IndexScripts == {"safe", "aggressive", "minimal"}

ProductCounts ==
    {0, 1, 2} \cup UNION { {100 * r * r, 100 * r * r + 99} : r \in 1..MaxRoot }

AttemptOutcomes == {"ok", "already exists", "memory", "other"}

\* int(math.sqrt(n))
IntSqrt(n) == CHOOSE r \in 0..n : r * r <= n /\ n < (r + 1) * (r + 1)

Larger(a, b) == IF a > b THEN a ELSE b

Rung(memory, lists) == [memory |-> memory, lists |-> lists]

\* strategies of create_vector_index_safe
safe_strategies(product_count) ==
    LET optimal_lists == Larger(50, Min(2000, IntSqrt(product_count)))
    IN  << Rung(512, optimal_lists),
           Rung(256, optimal_lists),
           Rung(128, optimal_lists),
           Rung(256, optimal_lists \div 2),
           Rung(128, Larger(50, optimal_lists \div 4)) >>

\* configs of create_vector_index_aggressive.main
aggressive_configs(product_count) ==
    LET optimal_lists == IntSqrt(product_count)
    IN  << Rung(2048, optimal_lists),
           Rung(1024, optimal_lists),
           Rung(512, optimal_lists),
           Rung(256, optimal_lists),
           Rung(256, optimal_lists \div 2),
           Rung(128, optimal_lists \div 4),
           Rung(64, 10) >>

\* memory_configs of create_vector_index_minimal
minimal_memory_configs(product_count) ==
    LET optimal_lists == IntSqrt(product_count)
        conservative_lists == Larger(10, optimal_lists \div 4)
    IN  << Rung(64, conservative_lists),
           Rung(96, conservative_lists),
           Rung(128, conservative_lists),
           Rung(128, Larger(10, conservative_lists \div 2)),
           Rung(64, 10) >>

\* the count of embedded products and the list of rungs
LadderStart ==
    /\ ladder.pc = "idle"
    /\ ladder' =
           IF ladder.product_count = 0
           THEN [ladder EXCEPT !.pc = "returned", !.result = "no products"]
           ELSE [ladder EXCEPT
                    !.pc = "attempt",
                    !.i = 1,
                    !.strategies =
                        IF ladder.script = "safe"
                        THEN safe_strategies(ladder.product_count)
                        ELSE IF ladder.script = "aggressive"
                        THEN aggressive_configs(ladder.product_count)
                        ELSE minimal_memory_configs(ladder.product_count)]

\* one pass of the loop over the rungs: SET maintenance_work_mem, CREATE INDEX
\* and the handler of what they raise
LadderAttempt(outcome) ==
    /\ ladder.pc = "attempt"
    /\ LET rung == ladder.strategies[ladder.i]
           tried == Append(ladder.attempts,
                           [memory |-> rung.memory, lists |-> rung.lists,
                            outcome |-> outcome])
           last == ladder.i = Len(ladder.strategies)
           advances == \/ outcome = "memory"
                       \/ outcome = "other" /\ ladder.script = "safe"
       IN  ladder' =
               IF outcome = "ok"
               THEN [ladder EXCEPT !.attempts = tried, !.pc = "returned",
                                   !.result = "created"]
               ELSE IF outcome = "already exists"
               THEN [ladder EXCEPT !.attempts = tried, !.pc = "returned",
                                   !.result = "exists"]
               ELSE IF advances /\ ~last
               THEN [ladder EXCEPT !.attempts = tried, !.i = @ + 1]
               ELSE IF advances
               THEN [ladder EXCEPT !.attempts = tried, !.pc = "returned",
                                   !.result = "skipped"]
               ELSE [ladder EXCEPT !.attempts = tried, !.pc = "returned",
                                   !.result = "error reported"]

LadderFrame ==
    UNCHANGED <<batchVars, applyVars, mapVars, normVars, insertVars, migrateVars,
                step3, task_queue, result_queue, threads, linking>>

LadderInit ==
    /\ ladder \in {[NotIndexing EXCEPT !.script = script, !.product_count = count] :
                      script \in IndexScripts, count \in ProductCounts}
    /\ step3 = NotEmbedding
    /\ task_queue = <<>>
    /\ result_queue = <<>>
    /\ threads = <<>>
    /\ linking = NotLinking
    /\ products = [p \in ProductIds |-> [embedding_text |-> NULL, embedding |-> NULL]]
    /\ BatchIdle
    /\ ApplyIdle
    /\ MapIdle
    /\ NormIdle
    /\ InsertIdle
    /\ MigrateIdle

LadderNext ==
    \/ LadderStart /\ LadderFrame
    \/ (\E outcome \in AttemptOutcomes : LadderAttempt(outcome)) /\ LadderFrame

LadderSpec == LadderInit /\ [][LadderNext]_vars

\* rung k of the attempts made so far is cheaper than rung k - 1
Cheaper(attempts, k) ==
    /\ attempts[k].memory <= attempts[k - 1].memory
    /\ attempts[k].lists <= attempts[k - 1].lists
    /\ \/ attempts[k].memory < attempts[k - 1].memory
       \/ attempts[k].lists < attempts[k - 1].lists

\* C25: every attempt after the first has a memory ceiling and a lists
\* parameter no greater than the attempt before it, one of them smaller, and
\* no attempt follows one that built the index.
C25_LadderDescends ==
    /\ \A k \in 2..Len(ladder.attempts) : Cheaper(ladder.attempts, k)
    /\ \A k \in 1..Len(ladder.attempts) - 1 : ladder.attempts[k].outcome # "ok"

\* C26: in create_vector_index_safe only an attempt that ran out of memory is
\* followed by another attempt, a failure for another reason ends the ladder
\* as a reported error, and a last rung that ran out of memory ends it with
\* the index skipped.
C26_OnlyMemoryFailureAdvances ==
    ladder.script = "safe" =>
        /\ \A k \in 1..Len(ladder.attempts) - 1 : ladder.attempts[k].outcome = "memory"
        /\ \A k \in 1..Len(ladder.attempts) :
               ladder.attempts[k].outcome = "other" =>
                   ladder.pc = "returned" /\ ladder.result = "error reported"
        /\ ladder.pc = "returned" /\ ladder.attempts # <<>>
               /\ ladder.attempts[Len(ladder.attempts)].outcome = "memory" =>
                   ladder.result = "skipped"

====
